---- MODULE Spec2Model ----
(***************************************************************************)
(* Model of the request dispatching code of the content-generation         *)
(* console: the error classifier and callApiWithRetry, the model-fallback  *)
(* dispatchers (callGeminiApi, generateImagesForPrompt) with their         *)
(* cooldown maps, the credential pool of App (getNextAvailableKey,         *)
(* cycleToNextKey) and the key rotation of VideoCreator (getApiKey).       *)
(*                                                                         *)
(* Strings are sequences of tokens; a token stands for a piece of text     *)
(* that the code's substring tests tell apart.  Time is Date.now() in ms.  *)
(***************************************************************************)
EXTENDS Integers, Sequences, FiniteSets, TLC

VARIABLES
    now,                  \* Date.now()
    clsErr, clsResult,    \* the error handed to the classifier, and its verdict
    retry,                \* the running callApiWithRetry invocation
    apiKeys,              \* App: apiKeys
    activeKeyIndex,       \* App: activeKeyIndex
    keyCooldowns,         \* App: keyCooldowns (Map key -> expiry)
    lastKey,              \* what the last getNextAvailableKey returned
    keyFailedAt,          \* time of the most recent cycleToNextKey per key
    lastFailed,           \* the last cycleToNextKey since the last getNextAvailableKey:
                          \* its key, its time, and whether the key was at the cursor
                          \* of a list that has not been saved since
    storage,              \* localStorage: the item the key list is kept in
    model,                \* ImageCreator: model (the selected image model)
    tempEnhanced,         \* ImageCreator: tempEnhanced is set
    modelBlacklist,       \* ImageCreator: modelBlacklist (text models)
    imagenModelBlacklist, \* ImageCreator: imagenModelBlacklist (image models)
    run,                  \* the handler in progress, with the values its closure holds
    disp,                 \* the dispatch in progress (callGeminiApi, generateImagesForPrompt)
    modelFailedAt,        \* time of the most recent cooldown entry written per model
    selections,           \* model selections made so far
    envApiKey,            \* process.env.API_KEY is set
    apiKeyIndex,          \* VideoCreator: apiKeyIndex.current
    video,                \* VideoCreator: the handler in progress, or the last one
    generatedVideos,      \* VideoCreator: number of entries of generatedVideos
    jobCount,             \* prompts handed to a handler so far
    app,                  \* App of App.tsx: where its mount stands, and isAiStudio
    fetcher,              \* the running fetchWithRetry invocation
    cards,                \* ImageCreator: cards (Map id -> card)
    isUpscaling,          \* ImageCreator: isUpscaling (id -> 0 for false, or the attempt)
    upscales,             \* the handleUpscale invocations in flight
    batchUpscale,         \* handleBatchUpscale in progress, with isBatchUpscaling
    generation,           \* handleGenerate as the upscaler sees it: its new cards
    upscaleEnded,         \* the handleUpscale invocation that ended last
    pairing,              \* VideoCreator: batchInput, inputImages, and the request
                          \* parameters the last handleGenerateVideo built from them
    overlap               \* ImageCreator: handleEnhancePrompt and handleGenerate in
                          \* progress at once, each with the dispatch it awaits

vars == <<now, clsErr, clsResult, retry, apiKeys, activeKeyIndex, keyCooldowns,
          lastKey, keyFailedAt, lastFailed, storage, model, tempEnhanced, modelBlacklist,
          imagenModelBlacklist, run, disp, modelFailedAt, selections,
          envApiKey, apiKeyIndex, video, generatedVideos, jobCount, app,
          fetcher, cards, isUpscaling, upscales, batchUpscale, generation,
          upscaleEnded, pairing, overlap>>

----------------------------------------------------------------------------
(* Bounds of the model *)

MaxMsgLen == 2
MaxRetries == 3
MaxTime == 75000
MaxJobs == 2
MaxCards == 1
MaxSelections == 1
\* the most videos one operation answers with
MaxVideos == 2
\* the most edits of the key list in the key manager between two saves
MaxEdits == 2
\* the most attempts fetchWithRetry is called with
MaxFetchRetries == 4
\* the longest batch input, in characters, and the most images uploaded
MaxInputLen == 5
MaxImages == 3

(* Program constants *)

CooldownMs == 60000
DefaultRetries == 3
DefaultDelay == 2000
TextRetries == 2
TextDelay == 1500
\* fetchWithRetry: delay = 1000, and the delay upscaleImage passes
DefaultFetchDelay == 1000
UpscaleFetchDelay == 2000

----------------------------------------------------------------------------
(* Strings and errors *)

Tokens == {"429", "rate limit", "Rate Limit", "resource_exhausted",
           "RESOURCE_EXHAUSTED", "quota", "Quota", "other"}

\* String.prototype.toLowerCase, token by token
LowerCase(tok) ==
    CASE tok = "Rate Limit" -> "rate limit"
      [] tok = "RESOURCE_EXHAUSTED" -> "resource_exhausted"
      [] tok = "Quota" -> "quota"
      [] tok = "Error: " -> "error: "
      [] tok = "[object Object]" -> "[object object]"
      [] OTHER -> tok

ToLowerCase(s) == [j \in DOMAIN s |-> LowerCase(s[j])]

\* String.prototype.includes
Includes(s, tok) == \E j \in DOMAIN s : s[j] = tok

Texts == UNION {[1..n -> Tokens] : n \in 0..MaxMsgLen}

\* What a call can throw: an Error instance with a message, a thrown string
\* primitive (no message property), a plain object {message}.
ErrorKinds == {"Error", "string", "object"}

AllErrors == [kind : ErrorKinds, text : Texts]

\* (error?.message || '')
MessageOrEmpty(e) == IF e.kind = "string" THEN <<>> ELSE e.text

\* error.toString()
ErrorToString(e) ==
    CASE e.kind = "Error" -> IF e.text = <<>> THEN <<"Error">> ELSE <<"Error: ">> \o e.text
      [] e.kind = "string" -> e.text
      [] OTHER -> <<"[object Object]">>

IsRateLimitError_NoLowerCase(e) ==
    \/ Includes(ErrorToString(e), "429")
    \/ Includes(MessageOrEmpty(e), "rate limit")
    \/ Includes(MessageOrEmpty(e), "resource_exhausted")
    \/ Includes(MessageOrEmpty(e), "quota")

IsRateLimitError(e) ==
    LET errorMessage == ToLowerCase(MessageOrEmpty(e))
        errorString == ErrorToString(e)
    IN  \/ Includes(errorString, "429")
        \/ Includes(errorMessage, "rate limit")
        \/ Includes(errorMessage, "resource_exhausted")
        \/ Includes(errorMessage, "quota")

Classification(e) == IF IsRateLimitError(e) THEN "Retryable" ELSE "Fatal"

----------------------------------------------------------------------------
(* The classifier applied to one error at a time *)

ClassifyInit ==
    /\ clsErr \in AllErrors
    /\ clsResult = "none"

Classify ==
    /\ clsResult = "none"
    /\ clsResult' = Classification(clsErr)
    /\ UNCHANGED clsErr

ThrowError ==
    /\ clsResult # "none"
    /\ clsErr' \in AllErrors
    /\ clsResult' = "none"

----------------------------------------------------------------------------
(* callApiWithRetry *)

\* What one call of apiCall() does: it resolves with a response (kind "ok"),
\* resolves with a response that lacks the payload (kind "malformed"), or
\* rejects with an error.
Response(v) == [kind |-> "ok", text |-> <<v>>]
Malformed == [kind |-> "malformed", text |-> <<>>]
IsError(o) == o.kind \in ErrorKinds

E429 == [kind |-> "Error", text |-> <<"429">>]
EQuota == [kind |-> "Error", text |-> <<"Quota">>]
EFatal == [kind |-> "Error", text |-> <<"other">>]
SQuota == [kind |-> "string", text |-> <<"quota">>]
GenericRetryError == [kind |-> "Error", text |-> <<"other", "other">>]

Outcomes == {Response("v1"), Malformed, E429, EQuota, EFatal, SQuota}

RetryIdle == [pc |-> "idle", retries |-> 0, delay |-> 0, i |-> 0, calls |-> 0,
              waits |-> <<>>, script |-> <<>>, result |-> Malformed]

RECURSIVE Pow2(_)
\* Math.pow(2, n)
Pow2(n) == IF n = 0 THEN 1 ELSE 2 * Pow2(n - 1)

BackoffDelay_Constant(delay, i) == delay

\* delay * Math.pow(2, i)
BackoffDelay(delay, i) == delay * Pow2(i)

ShouldRetry_AnyError(e, i, retries) == i < retries - 1

ShouldRetry_NoLastCheck(e, i, retries) == IsRateLimitError(e)

\* isRateLimitError && i < retries - 1
ShouldRetry(e, i, retries) == IsRateLimitError(e) /\ i < retries - 1

\* The invocation: for (let i = 0; i < retries; i++) is entered, or the loop
\* is skipped and the generic error is thrown.
RetryStarted(script, retries, delay) ==
    [pc |-> IF 0 < retries THEN "call" ELSE "thrown",
     retries |-> retries, delay |-> delay, i |-> 0, calls |-> 0,
     waits |-> <<>>, script |-> script,
     result |-> IF 0 < retries THEN Malformed ELSE GenericRetryError]

\* return await apiCall(), or the catch block
RetryAfterCall(r) ==
    LET o == r.script[r.calls + 1]
        r1 == [r EXCEPT !.calls = r.calls + 1]
    IN  IF ~IsError(o) THEN [r1 EXCEPT !.pc = "returned", !.result = o]
        ELSE IF ShouldRetry(o, r.i, r.retries) THEN [r1 EXCEPT !.pc = "wait", !.result = o]
        ELSE [r1 EXCEPT !.pc = "thrown", !.result = o]

\* the setTimeout of the backoff has fired; i++ and the loop test
RetryAfterWait(r) ==
    LET r1 == [r EXCEPT !.i = r.i + 1,
                        !.waits = Append(r.waits, BackoffDelay(r.delay, r.i))]
    IN  IF r.i + 1 < r.retries THEN [r1 EXCEPT !.pc = "call"]
        ELSE [r1 EXCEPT !.pc = "thrown", !.result = GenericRetryError]

RetryInit == retry = RetryIdle /\ now = 0

CallApiWithRetry ==
    /\ retry.pc = "idle"
    /\ \E retries \in 0..MaxRetries, delay \in {DefaultDelay, TextDelay} :
         \E script \in [1..retries -> Outcomes] :
            retry' = RetryStarted(script, retries, delay)
    /\ UNCHANGED now

ApiCall ==
    /\ retry.pc = "call"
    /\ retry' = RetryAfterCall(retry)
    /\ UNCHANGED now

BackoffElapsed ==
    /\ retry.pc = "wait"
    /\ now + BackoffDelay(retry.delay, retry.i) <= MaxTime
    /\ now' = now + BackoffDelay(retry.delay, retry.i)
    /\ retry' = RetryAfterWait(retry)

----------------------------------------------------------------------------
(* Cooldown maps (Map<string, number>) and the clock *)

EmptyMap == <<>>

\* map.has(k)
Has(map, k) == k \in DOMAIN map

\* the time of the failure of k is noted, in place of the time noted before
NoteFailure(map, k, t) == [x \in (DOMAIN map) \union {k} |-> IF x = k THEN t ELSE map[x]]

\* the mutation of MapSet in which a key that has an entry keeps it
MapSet_KeepsEntry(map, k, v) ==
    IF k \in DOMAIN map THEN map
    ELSE [x \in (DOMAIN map) \union {k} |-> IF x = k THEN v ELSE map[x]]

\* new Map(prev).set(k, v)
MapSet(map, k, v) == [x \in (DOMAIN map) \union {k} |-> IF x = k THEN v ELSE map[x]]

NotInCooldown_AtExpiry(map, k, t) == ~Has(map, k) \/ map[k] = 0 \/ t >= map[k]

\* !expiry || Date.now() > expiry
NotInCooldown(map, k, t) == ~Has(map, k) \/ map[k] = 0 \/ t > map[k]

CooldownExpiry_FromZero(t) == CooldownMs

\* Date.now() + 60000
CooldownExpiry(t) == t + CooldownMs

\* Time passes between two steps of the program: just under, exactly, or
\* just over one cooldown period.
TickSteps == {CooldownMs - 1, CooldownMs, CooldownMs + 1}

Tick ==
    /\ \E d \in TickSteps : now + d <= MaxTime /\ now' = now + d

----------------------------------------------------------------------------
(* The credential pool of App: apiKeys, activeKeyIndex, keyCooldowns *)

Keys == {"k1", "k2", "k3"}
NoKey == "null"

Range(seq) == {seq[j] : j \in DOMAIN seq}

\* key lists without duplicates (the key manager rejects duplicates)
KeyLists == {l \in UNION {[1..n -> Keys] : n \in 0..Cardinality(Keys)} :
                \A a, b \in DOMAIN l : a # b => l[a] # l[b]}

\* the save effect: if (activeKeyIndex >= apiKeys.length) setActiveKeyIndex(0)
SaveEffect(index, keys) == IF index >= Len(keys) THEN 0 ELSE index

\* the offsets i of the loop of getNextAvailableKey whose key is not in cooldown
AvailableOffsets(keys, index, cooldowns, t) ==
    {i \in 0..(Len(keys) - 1) :
        NotInCooldown(cooldowns, keys[((index + i) % Len(keys)) + 1], t)}

Min(S) == CHOOSE x \in S : \A y \in S : x <= y

NextAvailable_IgnoreCooldown(keys, index, cooldowns, t) ==
    IF Len(keys) = 0
    THEN [key |-> NoKey, index |-> -1, offset |-> 0]
    ELSE [key |-> keys[index + 1], index |-> index, offset |-> 0]

\* the mutation of NextAvailable in which the scan starts at the head of the list
NextAvailable_FromHead(keys, index, cooldowns, t) ==
    IF Len(keys) = 0 \/ AvailableOffsets(keys, 0, cooldowns, t) = {}
    THEN [key |-> NoKey, index |-> -1, offset |-> 0]
    ELSE LET i == Min(AvailableOffsets(keys, 0, cooldowns, t))
         IN  [key |-> keys[i + 1], index |-> i, offset |-> i]

\* the value getNextAvailableKey returns, and the offset i it stopped at
NextAvailable(keys, index, cooldowns, t) ==
    IF Len(keys) = 0 \/ AvailableOffsets(keys, index, cooldowns, t) = {}
    THEN [key |-> NoKey, index |-> -1, offset |-> 0]
    ELSE LET i == Min(AvailableOffsets(keys, index, cooldowns, t))
             keyIndex == (index + i) % Len(keys)
         IN  [key |-> keys[keyIndex + 1], index |-> keyIndex, offset |-> i]

NoneReturned == [key |-> NoKey, index |-> -1, offset |-> 0]

NoneFailed == [key |-> NoKey, atCursor |-> FALSE, at |-> 0]

\* the mutation of Items in which the strings are written without separator
RECURSIVE Items_NoSeparator(_)
Items_NoSeparator(keys) ==
    IF keys = <<>> THEN <<>>
    ELSE <<"\"", Head(keys), "\"">> \o Items_NoSeparator(Tail(keys))

\* JSON.stringify of a string array, as tokens
RECURSIVE Items(_)
Items(keys) ==
    IF keys = <<>> THEN <<>>
    ELSE <<"\"", Head(keys), "\"">> \o
         (IF Tail(keys) = <<>> THEN <<>> ELSE <<",">> \o Items(Tail(keys)))

Stringify(keys) == <<"[">> \o Items(keys) \o <<"]">>

\* localStorage.getItem of an item that was never set
NoItem == <<"null">>

\* what JSON.parse throws
SyntaxError == <<"SyntaxError">>

\* the strings between the brackets of a JSON array of strings
RECURSIVE ParseItems(_)
ParseItems(tokens) ==
    IF tokens = <<>> THEN <<>>
    ELSE IF Len(tokens) < 3 \/ tokens[1] # "\"" \/ tokens[3] # "\"" THEN SyntaxError
    ELSE LET rest == SubSeq(tokens, 4, Len(tokens))
         IN  IF rest = <<>> THEN <<tokens[2]>>
             ELSE IF Head(rest) # "," \/ Tail(rest) = <<>> THEN SyntaxError
             ELSE LET more == ParseItems(Tail(rest))
                  IN  IF more = SyntaxError THEN SyntaxError ELSE <<tokens[2]>> \o more

\* JSON.parse of the stored item
Parse(text) ==
    IF Len(text) < 2 \/ text[1] # "[" \/ text[Len(text)] # "]" THEN SyntaxError
    ELSE ParseItems(SubSeq(text, 2, Len(text) - 1))

\* the key list after the load effect: the parsed array, or the initial []
\* when the item is absent or does not parse
LoadedKeys(item) ==
    IF item = NoItem \/ Parse(item) = SyntaxError THEN <<>> ELSE Parse(item)

\* String.prototype.trim on the texts typed into the key field
RawKeys == Keys \cup {"", " ", " k1 ", "k2 "}

Trim(text) ==
    CASE text = " " -> ""
      [] text = " k1 " -> "k1"
      [] text = "k2 " -> "k2"
      [] OTHER -> text

PoolInit ==
    /\ apiKeys \in KeyLists
    /\ activeKeyIndex = 0
    /\ keyCooldowns = EmptyMap
    /\ lastKey = NoneReturned
    /\ keyFailedAt = EmptyMap
    /\ lastFailed = NoneFailed
    /\ storage = Stringify(apiKeys)

\* the mutation of CursorAfterSelection in which every selection moves the
\* cursor past the key it returns
CursorAfterSelection_RoundRobin(r, index, length) ==
    IF r.key = NoKey THEN index ELSE (r.index + 1) % length

\* if (i > 0) setActiveKeyIndex(keyIndex)
CursorAfterSelection(r, index, length) == IF r.offset > 0 THEN r.index ELSE index

GetNextAvailableKey ==
    LET r == NextAvailable(apiKeys, activeKeyIndex, keyCooldowns, now)
    IN  /\ lastKey' = r
        /\ activeKeyIndex' =
               SaveEffect(CursorAfterSelection(r, activeKeyIndex, Len(apiKeys)), apiKeys)
        /\ lastFailed' = NoneFailed
        /\ UNCHANGED <<apiKeys, storage, keyCooldowns, keyFailedAt, now>>

\* the mutation of CursorAfterFailure in which the cursor stays where it is
CursorAfterFailure_Stays(index, length) == index

\* (prev + 1) % (apiKeys.length || 1)
CursorAfterFailure(index, length) == (index + 1) % (IF length = 0 THEN 1 ELSE length)

CycleToNextKey ==
    /\ \E failedKey \in Range(apiKeys) :
        /\ keyCooldowns' = MapSet(keyCooldowns, failedKey, CooldownExpiry(now))
        /\ keyFailedAt' = NoteFailure(keyFailedAt, failedKey, now)
        /\ lastFailed' = [key |-> failedKey,
                          atCursor |-> apiKeys[activeKeyIndex + 1] = failedKey,
                          at |-> now]
    /\ activeKeyIndex' = SaveEffect(CursorAfterFailure(activeKeyIndex, Len(apiKeys)),
                                    apiKeys)
    /\ UNCHANGED <<apiKeys, storage, lastKey, now>>

ManagerAddKey_NoDuplicateTest(localKeys, newKey) ==
    IF Trim(newKey) # "" THEN Append(localKeys, Trim(newKey)) ELSE localKeys

\* handleAddKey of ApiKeyManager (Navbar.tsx) on the text of the key field
ManagerAddKey(localKeys, newKey) ==
    IF Trim(newKey) # "" /\ Trim(newKey) \notin Range(localKeys)
    THEN Append(localKeys, Trim(newKey))
    ELSE localKeys

\* handleRemoveKey of ApiKeyManager: localKeys.filter((_, i) => i !== index)
ManagerRemoveKey(localKeys, index) ==
    [j \in 1..(Len(localKeys) - 1) |->
        IF j <= index THEN localKeys[j] ELSE localKeys[j + 1]]

\* the values localKeys can take after at most n edits in the key manager
RECURSIVE Edited(_, _)
Edited(keys, n) ==
    IF n = 0 THEN {keys}
    ELSE LET before == Edited(keys, n - 1)
         IN  before
             \cup {ManagerAddKey(l, newKey) : l \in before, newKey \in RawKeys}
             \cup UNION {{ManagerRemoveKey(l, index) : index \in 0..(Len(l) - 1)} :
                            l \in before}

\* handleSave of ApiKeyManager: setApiKeys(localKeys), followed by the save effect
HandleSave ==
    /\ \E localKeys \in Edited(apiKeys, MaxEdits) :
         /\ localKeys # apiKeys
         /\ apiKeys' = localKeys
    /\ storage' = Stringify(apiKeys')
    /\ activeKeyIndex' = SaveEffect(activeKeyIndex, apiKeys')
    /\ lastFailed' = [lastFailed EXCEPT !.atCursor = FALSE]
    /\ UNCHANGED <<keyCooldowns, lastKey, keyFailedAt, now>>

\* A new session on the same storage: App is mounted with its initial state,
\* the load effect reads the stored item and the save effect writes the list.
NewSession ==
    /\ apiKeys' = LoadedKeys(storage)
    /\ storage' = Stringify(apiKeys')
    /\ activeKeyIndex' = 0
    /\ keyCooldowns' = EmptyMap
    /\ lastKey' = NoneReturned
    /\ keyFailedAt' = EmptyMap
    /\ lastFailed' = NoneFailed
    /\ UNCHANGED now

----------------------------------------------------------------------------
(* The dispatchers of ImageCreator: callGeminiApi and generateImagesForPrompt *)

IMAGEN_MODELS == <<"imagen-3.0-generate-002", "imagen-4.0-generate-001",
                   "imagen-4.0-ultra-generate-001", "imagen-4.0-fast-generate-001">>
GEMINI_TEXT_MODELS == <<"gemini-2.5-flash", "gemini-2.5-pro">>

\* [model, ...IMAGEN_MODELS.filter(m => m !== model)]
PrioritizedModels(selected) ==
    <<selected>> \o SelectSeq(IMAGEN_MODELS, LAMBDA m : m # selected)

\* models.filter(m => { const expiry = blacklist.get(m); return !expiry || Date.now() > expiry; })
AvailableModels(models, blacklist, t) ==
    SelectSeq(models, LAMBDA m : NotInCooldown(blacklist, m, t))

ClassModels(cls, selected) ==
    IF cls = "text" THEN GEMINI_TEXT_MODELS ELSE PrioritizedModels(selected)

ClassRetries_AlwaysDefault(cls) == DefaultRetries

\* callApiWithRetry(apiCall, 2, 1500) in callGeminiApi, callApiWithRetry(apiCall)
\* in generateImagesForPrompt
ClassRetries(cls) == IF cls = "text" THEN TextRetries ELSE DefaultRetries
ClassDelay(cls) == IF cls = "text" THEN TextDelay ELSE DefaultDelay

NoError == [kind |-> "none", text |-> <<>>]

\* new Error("API key missing")
ApiKeyMissingError == [kind |-> "Error", text |-> <<"API key missing">>]

\* new Error("All models are on cooldown.") / ("All image models are on cooldown.")
NoModelError(cls) == [kind |-> "Error", text |-> <<"All models are on cooldown: ", cls>>]

AllFailedError_NoMessage(cls, lastError) ==
    [kind |-> "Error",
     text |-> <<"All available models failed. Last error: ", "Unknown API error.">>]

\* new Error(`All available models failed. Last error: ${finalMessage}`)
AllFailedError(cls, lastError) ==
    [kind |-> "Error",
     text |-> <<"All available models failed. Last error: ">> \o
              (IF lastError.kind = "Error" THEN lastError.text ELSE <<"Unknown API error.">>)]

\* what the try block throws on a response without payload: the Error of
\* callGeminiApi, the TypeError of response.generatedImages.map
MalformedError(cls) == [kind |-> "Error", text |-> <<"Invalid response: ", cls>>]

\* What the backend does on the calls of one callApiWithRetry: the outcomes
\* after the one that ends the invocation are never read and are fixed, and
\* so is the rate-limit error of a call that is retried, of which only the
\* classification is read.
S429 == [kind |-> "string", text |-> <<"429">>]

DispatchOutcomes == {Response("v1"), Malformed, E429, S429, EFatal}
DispatchScripts(retries) ==
    {sc \in [1..retries -> DispatchOutcomes] :
        \A j \in 2..retries :
            IF IsError(sc[j - 1]) /\ IsRateLimitError(sc[j - 1])
            THEN sc[j - 1] = E429
            ELSE sc[j] = Response("v1")}

RunNone == [name |-> "none", textBlacklist |-> EmptyMap, imageBlacklist |-> EmptyMap,
            model |-> IMAGEN_MODELS[1], tempEnhanced |-> FALSE,
            jobs |-> 0, job |-> 0, phase |-> "none", cardsLeft |-> 0,
            outcomes |-> <<>>]

DispIdle == [cls |-> "none", pc |-> "idle", availableModels |-> <<>>, pos |-> 0,
             lastError |-> NoError, result |-> NoError, tried |-> <<>>,
             marked |-> <<>>, startBlacklist |-> EmptyMap, startedAt |-> 0]

Blacklist(cls) == IF cls = "text" THEN modelBlacklist ELSE imagenModelBlacklist

DispatchInit ==
    /\ model = IMAGEN_MODELS[1]
    /\ tempEnhanced = FALSE
    /\ modelBlacklist = EmptyMap
    /\ imagenModelBlacklist = EmptyMap
    /\ run = RunNone
    /\ disp = DispIdle
    /\ modelFailedAt = EmptyMap
    /\ selections = 0
    /\ envApiKey = TRUE

\* The start of callGeminiApi / generateImagesForPrompt up to the first await:
\* the available models are computed from the blacklist the closure holds, and
\* the first model's call is issued, or the no-model error is thrown.
BeginDispatch(cls, closureBlacklist, selected) ==
    LET avail == AvailableModels(ClassModels(cls, selected), closureBlacklist, now)
        d == [DispIdle EXCEPT !.cls = cls, !.availableModels = avail, !.pos = 1,
                              !.startBlacklist = Blacklist(cls), !.startedAt = now]
    IN  IF ~envApiKey
        THEN /\ disp' = [d EXCEPT !.pc = "thrown", !.availableModels = <<>>,
                                  !.result = ApiKeyMissingError]
             /\ retry' = RetryIdle
        ELSE IF avail = <<>>
        THEN /\ disp' = [d EXCEPT !.pc = "thrown", !.result = NoModelError(cls)]
             /\ retry' = RetryIdle
        ELSE /\ disp' = [d EXCEPT !.pc = "await"]
             /\ \E script \in DispatchScripts(ClassRetries(cls)) :
                    retry' = RetryStarted(script, ClassRetries(cls), ClassDelay(cls))

\* setModel (the model select). A handler in progress reads the model of its
\* closure, so a selection made while it runs acts as one made when it ends.
SelectModel ==
    /\ run.name = "none"
    /\ selections < MaxSelections
    /\ selections' = selections + 1
    /\ \E m \in Range(IMAGEN_MODELS) : m # model /\ model' = m
    /\ UNCHANGED <<now, retry, tempEnhanced, modelBlacklist, imagenModelBlacklist,
                   run, disp, modelFailedAt, jobCount, envApiKey>>

\* handleGenerate up to its first await
HandleGenerate ==
    /\ run.name = "none"
    /\ tempEnhanced' = FALSE
    /\ \E n \in 1..(MaxJobs - jobCount) :
         /\ jobCount' = jobCount + n
         /\ run' = [RunNone EXCEPT !.name = "handleGenerate",
                                   !.textBlacklist = modelBlacklist,
                                   !.imageBlacklist = imagenModelBlacklist,
                                   !.model = model, !.tempEnhanced = tempEnhanced,
                                   !.jobs = n, !.job = 1, !.phase = "image"]
    /\ BeginDispatch("image", imagenModelBlacklist, model)
    /\ UNCHANGED <<now, model, modelBlacklist, imagenModelBlacklist, modelFailedAt,
                   selections, envApiKey>>

\* handleEnhancePrompt up to its first await
HandleEnhancePrompt ==
    /\ run.name = "none"
    /\ jobCount < MaxJobs
    /\ jobCount' = jobCount + 1
    /\ run' = [RunNone EXCEPT !.name = "handleEnhancePrompt",
                              !.textBlacklist = modelBlacklist,
                              !.imageBlacklist = imagenModelBlacklist,
                              !.model = model, !.tempEnhanced = tempEnhanced,
                              !.jobs = 1, !.job = 1, !.phase = "text"]
    /\ BeginDispatch("text", modelBlacklist, model)
    /\ UNCHANGED <<now, model, tempEnhanced, modelBlacklist, imagenModelBlacklist,
                   modelFailedAt, selections, envApiKey>>

MarksCooldown_OnEveryOutcome(success, error) == TRUE

MarksCooldown_OnEveryError(success, error) == ~success

\* if (isRateLimitError) in the catch block: the only place a cooldown entry is written
MarksCooldown(success, error) == ~success /\ IsRateLimitError(error)

\* The continuation of a dispatcher after its callApiWithRetry has settled:
\* the return, or the catch block and the next turn of the loop over the
\* available models.
DispatchSettle ==
    /\ disp.pc = "await"
    /\ retry.pc \in {"returned", "thrown"}
    /\ LET cls == disp.cls
           m == disp.availableModels[disp.pos]
           success == retry.pc = "returned" /\ retry.result.kind = "ok"
           error == IF retry.pc = "thrown" THEN retry.result ELSE MalformedError(cls)
           rateLimited == ~success /\ IsRateLimitError(error)
           marks == MarksCooldown(success, error)
           d1 == [disp EXCEPT !.tried = Append(disp.tried,
                                  [model |-> m, script |-> retry.script,
                                   calls |-> retry.calls, at |-> now]),
                              !.marked = IF marks THEN Append(disp.marked, m)
                                         ELSE disp.marked]
           d2 == [d1 EXCEPT !.lastError = error]
       IN  /\ modelBlacklist' =
                IF marks /\ cls = "text"
                THEN MapSet(modelBlacklist, m, CooldownExpiry(now)) ELSE modelBlacklist
           /\ imagenModelBlacklist' =
                IF marks /\ cls = "image"
                THEN MapSet(imagenModelBlacklist, m, CooldownExpiry(now))
                ELSE imagenModelBlacklist
           /\ modelFailedAt' =
                IF marks THEN NoteFailure(modelFailedAt, m, now) ELSE modelFailedAt
           /\ IF success
              THEN /\ disp' = [d1 EXCEPT !.pc = "returned", !.result = retry.result]
                   /\ retry' = RetryIdle
              ELSE IF ~rateLimited
              THEN /\ disp' = [d2 EXCEPT !.pc = "thrown", !.result = error]
                   /\ retry' = RetryIdle
              ELSE IF disp.pos < Len(disp.availableModels)
              THEN /\ disp' = [d2 EXCEPT !.pos = disp.pos + 1]
                   /\ \E script \in DispatchScripts(ClassRetries(cls)) :
                          retry' = RetryStarted(script, ClassRetries(cls), ClassDelay(cls))
              ELSE /\ disp' = [d2 EXCEPT !.pc = "thrown",
                                         !.result = AllFailedError(cls, error)]
                   /\ retry' = RetryIdle
    /\ UNCHANGED <<now, model, tempEnhanced, run, selections, jobCount, envApiKey>>

\* the mutation of CatchesJobError in which the catch block of the loop body
\* rethrows what is not a rate-limit error
CatchesJobError_OnlyRateLimit(error) == IsRateLimitError(error)

\* catch (error) { ... } around the body of the job loop of handleGenerate and of
\* handleGenerateVideo: it catches every thrown value and its block throws nothing
CatchesJobError(error) == TRUE

\* the handler has ended: finally / setIsGenerating(false)
FinishRun ==
    /\ run' = RunNone
    /\ disp' = DispIdle
    /\ retry' = RetryIdle

\* the next turn of for (const p of promptsToProcess), or the end of the loop
NextJobOrFinish(r) ==
    IF r.job < r.jobs
    THEN /\ run' = [r EXCEPT !.job = r.job + 1, !.phase = "image", !.cardsLeft = 0]
         /\ BeginDispatch("image", r.imageBlacklist, r.model)
    ELSE FinishRun

\* handleAutoMetadata for the next new card: the metadata comes from
\* tempEnhanced, or from callGeminiApi
MetadataOrNextJob(r, cardsLeft) ==
    IF cardsLeft = 0 \/ r.tempEnhanced
    THEN NextJobOrFinish(r)
    ELSE /\ run' = [r EXCEPT !.phase = "metadata", !.cardsLeft = cardsLeft]
         /\ BeginDispatch("text", r.textBlacklist, r.model)

\* The metadata of a card. A text stands for where the value comes from; ""
\* and 0 are the values the || of handleAutoMetadata takes for missing.
AiMetadata == [title |-> "ai", description |-> "ai", keywords |-> <<"ai">>,
               category |-> 3]
EnhancedMetadata == [title |-> "enhanced", description |-> "enhanced",
                     keywords |-> <<"enhanced">>, category |-> 5]
NoMetadata == [title |-> "", description |-> "", keywords |-> <<>>, category |-> 0]

\* title and description cut from the prompt, no keyword, category 8
FallbackMetadata == [title |-> "prompt", description |-> "prompt", keywords |-> <<>>,
                     category |-> 8]

\* the texts callGeminiApi can return for the metadata prompt
MetadataBodies == {"complete", "no title", "not JSON"}

\* meta = JSON.parse(responseText), null when the call or the parse throws
ParsedMetadata(ok, body) ==
    IF ~ok \/ body = "not JSON" THEN NoMetadata
    ELSE IF body = "no title" THEN [AiMetadata EXCEPT !.title = ""]
    ELSE AiMetadata

\* the mutation of WrittenMetadata that writes the metadata as it was parsed
WrittenMetadata_NoFallback(meta) == meta

\* card.title = meta?.title || fallbackTitle, and so on, in setCards
WrittenMetadata(meta) ==
    [title |-> IF meta.title # "" THEN meta.title ELSE FallbackMetadata.title,
     description |-> IF meta.description # "" THEN meta.description
                     ELSE FallbackMetadata.description,
     keywords |-> meta.keywords,
     category |-> IF meta.category # 0 THEN meta.category ELSE FallbackMetadata.category]

\* the run once the image dispatch of its current prompt has settled: the cards
\* of the prompt are added to the result set, or the catch block is entered.
\* With tempEnhanced in the closure every card gets its metadata with no call.
ImageSettled(r, ok, newCards) ==
    [r EXCEPT !.outcomes = Append(r.outcomes,
                               [job |-> r.job, ok |-> ok, cards |-> newCards, at |-> now,
                                meta |-> IF r.tempEnhanced
                                         THEN [k \in 1..newCards |->
                                                  [failed |-> FALSE,
                                                   written |-> WrittenMetadata(EnhancedMetadata)]]
                                         ELSE <<>>])]

\* handleAutoMetadata of a card once callGeminiApi has settled: the try block
\* or the catch block, then setCards
MetadataSettled(r, ok, body) ==
    [r EXCEPT !.outcomes[Len(r.outcomes)].meta =
                  Append(@, [failed |-> ~ok \/ body = "not JSON",
                             written |-> WrittenMetadata(ParsedMetadata(ok, body))])]

\* The continuation of the handler after the dispatch it awaits has settled.
HandlerContinue ==
    /\ run.name # "none"
    /\ disp.pc \in {"returned", "thrown"}
    /\ IF run.name = "handleEnhancePrompt"
       THEN /\ FinishRun
            /\ tempEnhanced' = IF disp.pc = "returned" THEN TRUE ELSE tempEnhanced
       ELSE /\ UNCHANGED tempEnhanced
            /\ IF run.phase = "image"
               THEN IF disp.pc = "returned"
                    THEN \E n \in 0..MaxCards :
                             MetadataOrNextJob(ImageSettled(run, TRUE, n), n)
                    ELSE IF CatchesJobError(disp.result)
                    THEN NextJobOrFinish(ImageSettled(run, FALSE, 0))
                    ELSE /\ run' = [run EXCEPT !.phase = "raised"]
                         /\ disp' = DispIdle
                         /\ retry' = RetryIdle
               ELSE \E body \in (IF disp.pc = "returned" THEN MetadataBodies
                                  ELSE {"none"}) :
                        MetadataOrNextJob(MetadataSettled(run, disp.pc = "returned", body),
                                          run.cardsLeft - 1)
    /\ UNCHANGED <<now, model, modelBlacklist, imagenModelBlacklist, modelFailedAt,
                   selections, jobCount, envApiKey>>

\* Time passes between two handlers; within a handler it passes in the waits
\* of callApiWithRetry. Time is counted from the first handler.
DispatchTick ==
    /\ run.name = "none"
    /\ jobCount > 0
    /\ Tick

----------------------------------------------------------------------------
(* VideoCreator: getApiKey, callGeminiApi, handleGenerateVideo; the key list of App *)

PollIntervalMs == 10000

NoKeyError == [kind |-> "Error", text |-> <<"API Key is not configured.">>]
NoLinkError == [kind |-> "Error", text |-> <<"no download link was found">>]
FetchError == [kind |-> "Error", text |-> <<"Failed to fetch video">>]

GetApiKey_FallbackKey(keys, index) ==
    [key |-> IF index + 1 \in DOMAIN keys THEN keys[index + 1] ELSE "k1",
     index |-> IF Len(keys) = 0 THEN index ELSE (index + 1) % Len(keys)]

\* getApiKey over the key list of its closure: the key (undefined when the
\* index is past the end of the list) and the new value of apiKeyIndex.current
GetApiKey(keys, index) ==
    IF Len(keys) = 0
    THEN [key |-> NoKey, index |-> index]
    ELSE [key |-> IF index + 1 \in DOMAIN keys THEN keys[index + 1] ELSE NoKey,
          index |-> (index + 1) % Len(keys)]

\* no operation handle yet
NoOperation == [kind |-> "none", done |-> FALSE, uris |-> 0]

VideoIdle == [name |-> "none", pc |-> "idle", keys |-> <<>>, jobs |-> 0, job |-> 0,
              apiKey |-> NoKey, outcomes |-> <<>>, calls |-> 0, polls |-> 0,
              uris |-> 0, totalSuccessCount |-> 0, startedAt |-> 0,
              operation |-> NoOperation, initial |-> NoOperation]

\* the operation handle, or the error, a video backend call answers with
OperationOutcomes ==
    {[kind |-> "operation", done |-> TRUE, uris |-> n] : n \in 0..MaxVideos}
        \cup {[kind |-> "operation", done |-> FALSE, uris |-> 0], E429, EFatal}

VideoInit ==
    /\ apiKeyIndex = 0
    /\ video = VideoIdle
    /\ generatedVideos = 0

\* what is recorded of a job when it ends: its result, the videos it added, its
\* backend calls and status fetches, the first and the last operation handle
OutcomeOf(v, result, count) ==
    [job |-> v.job, result |-> result, videos |-> count, calls |-> v.calls,
     polls |-> v.polls, apiKey |-> v.apiKey, initial |-> v.initial,
     operation |-> v.operation, at |-> now]

\* the mutation of JobEnded in which a failed job ends the loop
JobEnded_StopsOnFailure(v, result, count) ==
    [v EXCEPT !.outcomes = Append(v.outcomes, OutcomeOf(v, result, count)),
              !.totalSuccessCount = v.totalSuccessCount + count,
              !.job = IF IsError(result) THEN v.jobs + 1 ELSE v.job + 1,
              !.calls = 0, !.polls = 0, !.uris = 0, !.apiKey = NoKey,
              !.operation = NoOperation, !.initial = NoOperation]

\* the mutation of JobEnded in which totalSuccessCount counts the succeeded jobs
JobEnded_CountsJobs(v, result, count) ==
    [v EXCEPT !.outcomes = Append(v.outcomes, OutcomeOf(v, result, count)),
              !.totalSuccessCount = v.totalSuccessCount + (IF IsError(result) THEN 0 ELSE 1),
              !.job = v.job + 1, !.calls = 0, !.polls = 0, !.uris = 0,
              !.apiKey = NoKey, !.operation = NoOperation, !.initial = NoOperation]

\* the outcome of the current job is recorded: the end of the try block or the
\* catch block of the loop body
JobEnded(v, result, count) ==
    [v EXCEPT !.outcomes = Append(v.outcomes, OutcomeOf(v, result, count)),
              !.totalSuccessCount = v.totalSuccessCount + count,
              !.job = v.job + 1, !.calls = 0, !.polls = 0, !.uris = 0,
              !.apiKey = NoKey, !.operation = NoOperation, !.initial = NoOperation]

\* The loop of handleGenerateVideo from the top of a turn to its next await:
\* the turns that get no key fail at once, the first turn that gets a key
\* issues generateVideos, and past the last turn the handler ends.
RECURSIVE NextTurn(_, _)
NextTurn(v, index) ==
    IF /\ v.outcomes # <<>>
       /\ IsError(v.outcomes[Len(v.outcomes)].result)
       /\ ~CatchesJobError(v.outcomes[Len(v.outcomes)].result)
    THEN [video |-> [v EXCEPT !.pc = "raised"], index |-> index]
    ELSE IF v.job > v.jobs
    THEN [video |-> [v EXCEPT !.pc = "done"], index |-> index]
    ELSE LET g == GetApiKey(v.keys, index)
         IN  IF g.key = NoKey
             THEN NextTurn(JobEnded(v, NoKeyError, 0), g.index)
             ELSE [video |-> [v EXCEPT !.pc = "generateVideos", !.apiKey = g.key],
                   index |-> g.index]

\* the number in the notice "Generation complete. Successfully created N
\* video(s)." that ends handleGenerateVideo
SummaryCount(v) == v.totalSuccessCount

VideoFree == video.pc \in {"idle", "done"}

\* handleGenerateVideo up to its first await
HandleGenerateVideo ==
    /\ VideoFree
    /\ \E n \in 1..(MaxJobs - jobCount) :
         /\ jobCount' = jobCount + n
         /\ LET r == NextTurn([VideoIdle EXCEPT !.name = "handleGenerateVideo",
                                                !.keys = apiKeys, !.jobs = n, !.job = 1,
                                                !.startedAt = now],
                              apiKeyIndex)
            IN  video' = r.video /\ apiKeyIndex' = r.index
    /\ generatedVideos' = 0
    /\ UNCHANGED <<now, apiKeys>>

\* the mutation of AfterOperation in which a rate-limit error of generateVideos
\* is followed by a second call
AfterOperation_CallsAgain(v, o) ==
    LET w == [v EXCEPT !.operation = o,
                       !.initial = IF v.polls = 0 THEN o ELSE v.initial]
    IN  IF o = E429 /\ v.polls = 0 /\ v.calls < 2
        THEN [video |-> [v EXCEPT !.pc = "generateVideos"], index |-> apiKeyIndex]
        ELSE IF IsError(o) THEN NextTurn(JobEnded(v, o, 0), apiKeyIndex)
        ELSE IF ~o.done THEN [video |-> [w EXCEPT !.pc = "wait"], index |-> apiKeyIndex]
        ELSE IF o.uris = 0 THEN NextTurn(JobEnded(w, NoLinkError, 0), apiKeyIndex)
        ELSE [video |-> [w EXCEPT !.pc = "fetch", !.uris = o.uris],
              index |-> apiKeyIndex]

\* what follows an operation handle or an error of generateVideos or of
\* getVideosOperation
AfterOperation(v, o) ==
    LET w == [v EXCEPT !.operation = o,
                       !.initial = IF v.polls = 0 THEN o ELSE v.initial]
    IN  IF IsError(o) THEN NextTurn(JobEnded(v, o, 0), apiKeyIndex)
        ELSE IF ~o.done THEN [video |-> [w EXCEPT !.pc = "wait"], index |-> apiKeyIndex]
        ELSE IF o.uris = 0 THEN NextTurn(JobEnded(w, NoLinkError, 0), apiKeyIndex)
        ELSE [video |-> [w EXCEPT !.pc = "fetch", !.uris = o.uris],
              index |-> apiKeyIndex]

\* ai.models.generateVideos(params) settles
GenerateVideosSettles ==
    /\ video.pc = "generateVideos"
    /\ \E o \in OperationOutcomes :
         LET r == AfterOperation([video EXCEPT !.calls = video.calls + 1], o)
         IN  video' = r.video /\ apiKeyIndex' = r.index
    /\ UNCHANGED <<now, apiKeys, generatedVideos, jobCount>>

\* the mutation of PollWait in which the status is fetched without a wait
PollWait_NoWait ==
    /\ video.pc = "wait"
    /\ video' = [video EXCEPT !.pc = "getVideosOperation"]
    /\ UNCHANGED <<now, apiKeys, apiKeyIndex, generatedVideos, jobCount>>

\* setTimeout(resolve, 10000) of the polling loop
PollWait ==
    /\ video.pc = "wait"
    /\ now + PollIntervalMs <= MaxTime
    /\ now' = now + PollIntervalMs
    /\ video' = [video EXCEPT !.pc = "getVideosOperation"]
    /\ UNCHANGED <<apiKeys, apiKeyIndex, generatedVideos, jobCount>>

\* ai.operations.getVideosOperation settles
GetVideosOperationSettles ==
    /\ video.pc = "getVideosOperation"
    /\ \E o \in OperationOutcomes :
         LET r == AfterOperation([video EXCEPT !.calls = video.calls + 1,
                                               !.polls = video.polls + 1], o)
         IN  video' = r.video /\ apiKeyIndex' = r.index
    /\ UNCHANGED <<now, apiKeys, generatedVideos, jobCount>>

\* the mutation of FetchSettles in which a failed fetch empties the result set
FetchSettles_FailureClears ==
    /\ video.pc = "fetch"
    /\ \E ok \in BOOLEAN :
         LET r == NextTurn(JobEnded(video, IF ok THEN Response("video") ELSE FetchError,
                                    IF ok THEN video.uris ELSE 0),
                           apiKeyIndex)
         IN  /\ video' = r.video
             /\ apiKeyIndex' = r.index
             /\ generatedVideos' = IF ok THEN generatedVideos + video.uris ELSE 0
    /\ UNCHANGED <<now, apiKeys, jobCount>>

\* the fetches of the video URIs settle
FetchSettles ==
    /\ video.pc = "fetch"
    /\ \E ok \in BOOLEAN :
         LET r == NextTurn(JobEnded(video, IF ok THEN Response("video") ELSE FetchError,
                                    IF ok THEN video.uris ELSE 0),
                           apiKeyIndex)
         IN  /\ video' = r.video
             /\ apiKeyIndex' = r.index
             /\ generatedVideos' = IF ok THEN generatedVideos + video.uris
                                          ELSE generatedVideos
    /\ UNCHANGED <<now, apiKeys, jobCount>>

\* handleEnhancePrompt of VideoCreator up to the await in callGeminiApi
VideoHandleEnhancePrompt ==
    /\ VideoFree
    /\ jobCount < MaxJobs
    /\ jobCount' = jobCount + 1
    /\ LET g == GetApiKey(apiKeys, apiKeyIndex)
           v == [VideoIdle EXCEPT !.name = "handleEnhancePrompt", !.keys = apiKeys,
                                  !.jobs = 1, !.job = 1, !.startedAt = now]
       IN  /\ apiKeyIndex' = g.index
           /\ video' = IF g.key = NoKey
                       THEN [JobEnded(v, NoKeyError, 0) EXCEPT !.pc = "done"]
                       ELSE [v EXCEPT !.pc = "generateContent", !.apiKey = g.key]
    /\ UNCHANGED <<now, apiKeys, generatedVideos>>

\* ai.models.generateContent of callGeminiApi settles
GenerateContentSettles ==
    /\ video.pc = "generateContent"
    /\ \E o \in DispatchOutcomes :
         LET v == [video EXCEPT !.calls = video.calls + 1]
             result == IF o = Malformed THEN MalformedError("text") ELSE o
         IN  video' = [JobEnded(v, result, 0) EXCEPT !.pc = "done"]
    /\ UNCHANGED <<now, apiKeys, apiKeyIndex, generatedVideos, jobCount>>

\* The polling loop without the horizon of the clock: past MaxTime the wait and
\* the status fetch go on, the clock reading stays at MaxTime and the history of
\* the job is no longer extended.
PollWaitOn ==
    /\ video.pc = "wait"
    /\ now' = IF now + PollIntervalMs <= MaxTime THEN now + PollIntervalMs ELSE MaxTime
    /\ video' = [video EXCEPT !.pc = "getVideosOperation"]
    /\ UNCHANGED <<apiKeys, apiKeyIndex, generatedVideos, jobCount>>

GetVideosOperationSettlesOn ==
    /\ video.pc = "getVideosOperation"
    /\ \E o \in OperationOutcomes :
         LET v == IF now < MaxTime
                  THEN [video EXCEPT !.calls = video.calls + 1,
                                     !.polls = video.polls + 1]
                  ELSE video
             r == AfterOperation(v, o)
         IN  video' = r.video /\ apiKeyIndex' = r.index
    /\ UNCHANGED <<now, apiKeys, generatedVideos, jobCount>>

\* isGenerating and isEnhancing of VideoCreator: true from the set-true at the head
\* of the handler to the set-false at its end
VideoIsGenerating == video.name = "handleGenerateVideo" /\ video.pc \notin {"idle", "done"}

VideoIsEnhancing == video.name = "handleEnhancePrompt" /\ video.pc \notin {"idle", "done"}

\* the mutation of AddKey that does not test for the key being present
AddKey_NoDuplicateTest(keys, key) ==
    IF Trim(key) # "" THEN Append(keys, Trim(key)) ELSE keys

\* handleAddKey of App.tsx, on the key handleAddClick passes it
AddKey(keys, key) ==
    IF Trim(key) # "" /\ key \notin Range(keys) THEN Append(keys, Trim(key)) ELSE keys

\* handleAddClick of ApiKeyManager and handleAddKey of App.tsx, followed by the
\* persist effect
HandleAddKey ==
    /\ \E newKey \in RawKeys :
         /\ Trim(newKey) # ""
         /\ apiKeys' = AddKey(apiKeys, Trim(newKey))
    /\ storage' = Stringify(apiKeys')
    /\ UNCHANGED <<now, apiKeyIndex, video, generatedVideos, jobCount>>

\* handleDeleteKey of App
HandleDeleteKey ==
    /\ \E keyToDelete \in Range(apiKeys) :
         apiKeys' = SelectSeq(apiKeys, LAMBDA key : key # keyToDelete)
    /\ storage' = Stringify(apiKeys')
    /\ UNCHANGED <<now, apiKeyIndex, video, generatedVideos, jobCount>>

----------------------------------------------------------------------------
(* fetchWithRetry *)

\* what one fetch can do: a response that is ok, a 429 response, another
\* response that is not ok, or a rejection (a network failure)
FetchResponses == {"ok", "429", "not-ok", "rejected"}

FetchIdle == [pc |-> "idle", retries |-> 0, delay |-> 0, i |-> 0, responses |-> <<>>,
              calledAt |-> <<>>, waits |-> <<>>, result |-> "none"]

\* the mutation of FetchWait in which the wait doubles with every attempt
FetchWait_Doubling(delay, i) == delay * (2 ^ i)

\* setTimeout(res, delay * (i + 1))
FetchWait(delay, i) == delay * (i + 1)

\* the mutation of AfterFailedFetch in which the error is raised at once
AfterFailedFetch_RaisesAtOnce(f, response) ==
    [f EXCEPT !.pc = "thrown",
              !.result = IF response = "not-ok" THEN "HTTP error" ELSE "rejected"]

\* the catch block: if (i === retries - 1) throw error; otherwise the loop goes
\* on to its next turn
AfterFailedFetch(f, response) ==
    IF f.i = f.retries - 1
    THEN [f EXCEPT !.pc = "thrown",
                   !.result = IF response = "not-ok" THEN "HTTP error" ELSE "rejected"]
    ELSE [f EXCEPT !.i = f.i + 1]

\* fetchWithRetry(url, options, retries, delay) up to its first await
FetchWithRetry ==
    /\ fetcher.pc = "idle"
    /\ \E retries \in 1..MaxFetchRetries, delay \in {DefaultFetchDelay, UpscaleFetchDelay} :
         fetcher' = [FetchIdle EXCEPT !.pc = "fetch", !.retries = retries,
                                      !.delay = delay]
    /\ UNCHANGED now

\* await fetch(url, options) settles
FetchAnswers ==
    /\ fetcher.pc = "fetch"
    /\ \E response \in FetchResponses :
         LET f == [fetcher EXCEPT !.responses = Append(fetcher.responses, response),
                                  !.calledAt = Append(fetcher.calledAt, now)]
         IN  fetcher' =
                CASE response = "ok" -> [f EXCEPT !.pc = "returned", !.result = "response"]
                  [] response = "429" ->
                        [f EXCEPT !.pc = "wait",
                                  !.waits = Append(f.waits,
                                                   [i |-> f.i,
                                                    wait |-> FetchWait(f.delay, f.i)])]
                  [] OTHER -> AfterFailedFetch(f, response)
    /\ UNCHANGED now

\* the timer of the wait fires: continue, and the loop test i < retries
FetchWaitElapsed ==
    /\ fetcher.pc = "wait"
    /\ now' = now + fetcher.waits[Len(fetcher.waits)].wait
    /\ fetcher' = IF fetcher.i + 1 < fetcher.retries
                  THEN [fetcher EXCEPT !.pc = "fetch", !.i = fetcher.i + 1]
                  ELSE [fetcher EXCEPT !.pc = "thrown", !.i = fetcher.i + 1,
                                       !.result = "All retries failed."]

----------------------------------------------------------------------------
(* The upscaler of ImageCreator: upscaleImage, handleUpscale, handleBatchUpscale *)
(* and the auto-upscale of handleGenerate                                       *)

\* the ids of the cards a behaviour creates
CardIds == {"c1", "c2"}

\* the three loops of handleUpscale callers: the button of a card, the batch
\* button, the end of handleGenerate
Origins == {"single", "batch", "auto"}

\* a card as handleGenerate creates it, and its image once upscaled
NewCard == [isUpscaled |-> FALSE, imageUrl |-> "data:image/png"]
UpscaledCard == [isUpscaled |-> TRUE, imageUrl |-> "upscaled_url"]

BatchIdle == [isBatchUpscaling |-> FALSE, pending |-> {}, total |-> 0,
              successfulCount |-> 0]
GenerationIdle == [pc |-> "idle", autoUpscale |-> FALSE, generatedCards |-> {},
                   pending |-> {}]
NoneEnded == [card |-> "none", origin |-> "none", attempts |-> 0, result |-> "none",
              wasUpscaled |-> FALSE]

UpscaleInit ==
    /\ cards = EmptyMap
    /\ isUpscaling = EmptyMap
    /\ upscales = {}
    /\ batchUpscale = BatchIdle
    /\ generation = GenerationIdle
    /\ upscaleEnded = NoneEnded

\* what fetchWithRetry hands to upscaleImage, and the body of an ok response
FetchResults == {"response", "HTTP error", "rejected", "All retries failed."}
UpscaleBodies == {"success", "no download_url", "not success"}

\* upscaleImage: the upscaled file, or the error it rethrows
UpscaleImage(fetchResult, body) ==
    IF fetchResult = "response" /\ body = "success" THEN "ok" ELSE "error"

\* the entry `false` of isUpscaling; an entry { attempt: n } is the number n
NotUpscaling == 0

\* the ways a call of upscaleImage can settle
UpscaleOutcomes == {UpscaleImage(fetchResult, body) :
                       fetchResult \in FetchResults, body \in UpscaleBodies}

\* typeof isUpscaling[card.id] === 'object'
IsCurrentlyUpscaling(id) == Has(isUpscaling, id) /\ isUpscaling[id] # NotUpscaling

\* handleUpscale(card) up to its first await, for the cards of a set whose
\* snapshots are not upscaled: the attempt is noted and upscaleImage is called
Started(ids, origin) ==
    {[card |-> id, origin |-> origin, attempt |-> 1,
      sentUpscaled |-> cards[id].isUpscaled] : id \in ids}

NoteAttempts(ids) ==
    [id \in (DOMAIN isUpscaling) \union ids |->
        IF id \in ids THEN 1 ELSE isUpscaling[id]]

\* one invocation per card and caller is followed
NotFollowed(ids, origin) ==
    \A u \in upscales : ~(u.card \in ids /\ u.origin = origin)

\* the button of a card, shown when !card.isUpscaled && !isCurrentlyUpscaling
HandleUpscale ==
    /\ \E id \in DOMAIN cards :
         /\ ~cards[id].isUpscaled
         /\ ~IsCurrentlyUpscaling(id)
         /\ NotFollowed({id}, "single")
         /\ upscales' = upscales \union Started({id}, "single")
         /\ isUpscaling' = NoteAttempts({id})
    /\ UNCHANGED <<cards, batchUpscale, generation, upscaleEnded>>

\* chunkSize of handleBatchUpscale and of the auto-upscale
ChunkSize == 5

\* handleBatchUpscale up to the await of its first chunk; the button is
\* disabled when no selected card is un-upscaled or isBatchUpscaling is set
HandleBatchUpscale ==
    /\ ~batchUpscale.isBatchUpscaling
    /\ \E selected \in SUBSET (DOMAIN cards) :
         LET cardsToUpscale == {id \in selected : ~cards[id].isUpscaled}
         IN  /\ cardsToUpscale # {}
             /\ Cardinality(cardsToUpscale) <= ChunkSize
             /\ NotFollowed(cardsToUpscale, "batch")
             /\ upscales' = upscales \union Started(cardsToUpscale, "batch")
             /\ isUpscaling' = NoteAttempts(cardsToUpscale)
             /\ batchUpscale' = [BatchIdle EXCEPT !.isBatchUpscaling = TRUE,
                                                  !.pending = cardsToUpscale,
                                                  !.total = Cardinality(cardsToUpscale)]
    /\ UNCHANGED <<cards, generation, upscaleEnded>>

\* handleGenerate is started, with the autoUpscale of its closure
GenerationStarts ==
    /\ generation.pc = "idle"
    /\ DOMAIN cards # CardIds
    /\ \E auto \in BOOLEAN :
         generation' = [GenerationIdle EXCEPT !.pc = "generating", !.autoUpscale = auto]
    /\ UNCHANGED <<cards, isUpscaling, upscales, batchUpscale, upscaleEnded>>

\* a prompt of the run succeeds: generatedCards.push(cardData) and setCards
CardGenerated ==
    /\ generation.pc = "generating"
    /\ \E id \in CardIds \ DOMAIN cards :
         /\ cards' = MapSet(cards, id, NewCard)
         /\ generation' = [generation EXCEPT
                               !.generatedCards = generation.generatedCards \union {id}]
    /\ UNCHANGED <<isUpscaling, upscales, batchUpscale, upscaleEnded>>

\* the loop of handleGenerate ends: setIsGenerating(false), and the cards of the
\* run, as they were created, are handed to handleUpscale when autoUpscale is set
GenerationEnds ==
    /\ generation.pc = "generating"
    /\ IF generation.autoUpscale /\ generation.generatedCards # {}
       THEN /\ Cardinality(generation.generatedCards) <= ChunkSize
            /\ NotFollowed(generation.generatedCards, "auto")
            /\ upscales' = upscales \union Started(generation.generatedCards, "auto")
            /\ isUpscaling' = NoteAttempts(generation.generatedCards)
            /\ generation' = [generation EXCEPT !.pc = "auto",
                                                !.pending = generation.generatedCards]
       ELSE /\ generation' = GenerationIdle
            /\ UNCHANGED <<upscales, isUpscaling>>
    /\ UNCHANGED <<cards, batchUpscale, upscaleEnded>>

\* the attempts of handleUpscale: for (let i = 1; i <= 3; i++)
UpscaleAttempts == 3

\* the mutation of AfterUpscaleError in which the loop has no last attempt
AfterUpscaleError_NoLimit(u) == [u EXCEPT !.attempt = u.attempt + 1,
                                          !.sentUpscaled = cards[u.card].isUpscaled]

\* the catch of handleUpscale: the next attempt, or the end of the invocation
\* (the record of an invocation that has ended has attempt 0)
AfterUpscaleError(u) ==
    IF u.attempt < UpscaleAttempts
    THEN [u EXCEPT !.attempt = u.attempt + 1,
                   !.sentUpscaled = cards[u.card].isUpscaled]
    ELSE [u EXCEPT !.attempt = 0]

\* Promise.allSettled of the chunk the invocation belongs to: when its last
\* invocation has ended the caller goes on to its end
BatchAfter(u, fulfilled) ==
    IF u.origin # "batch" THEN batchUpscale
    ELSE LET b == [batchUpscale EXCEPT
                      !.pending = batchUpscale.pending \ {u.card},
                      !.successfulCount = batchUpscale.successfulCount
                                            + (IF fulfilled THEN 1 ELSE 0)]
         IN  IF b.pending = {} THEN [b EXCEPT !.isBatchUpscaling = FALSE] ELSE b

GenerationAfter(u) ==
    IF u.origin # "auto" THEN generation
    ELSE IF generation.pending = {u.card} THEN GenerationIdle
    ELSE [generation EXCEPT !.pending = generation.pending \ {u.card}]

Ended(u, result) ==
    [card |-> u.card, origin |-> u.origin, attempts |-> u.attempt, result |-> result,
     wasUpscaled |-> cards[u.card].isUpscaled]

\* upscaleImage of an invocation settles
UpscaleSettles ==
    \E u \in upscales, outcome \in UpscaleOutcomes :
        IF outcome = "ok"
        THEN /\ cards' = [cards EXCEPT ![u.card] = UpscaledCard]
             /\ isUpscaling' = MapSet(isUpscaling, u.card, NotUpscaling)
             /\ upscales' = upscales \ {u}
             /\ batchUpscale' = BatchAfter(u, TRUE)
             /\ generation' = GenerationAfter(u)
             /\ upscaleEnded' = Ended(u, "fulfilled")
        ELSE LET v == AfterUpscaleError(u)
             IN  IF v.attempt # 0
                 THEN /\ isUpscaling' = MapSet(isUpscaling, u.card, v.attempt)
                      /\ upscales' = (upscales \ {u}) \union {v}
                      /\ UNCHANGED <<cards, batchUpscale, generation, upscaleEnded>>
                 ELSE /\ isUpscaling' = MapSet(isUpscaling, u.card, NotUpscaling)
                      /\ upscales' = upscales \ {u}
                      /\ batchUpscale' = BatchAfter(u, FALSE)
                      /\ generation' = GenerationAfter(u)
                      /\ upscaleEnded' = Ended(u, "rejected")
                      /\ UNCHANGED cards

----------------------------------------------------------------------------
(* App of App.tsx: the mount, the load effect and the persist effect *)

\* the value of process.env.API_KEY when it is set
EnvKey == "env-key"

\* App before its first render is committed: useState(false) of isAiStudio
AppStart == [pc |-> "start", isAiStudio |-> FALSE, isKeyManagerOpen |-> FALSE,
             activePage |-> "image"]

\* App once its effects have run and its state has settled
AppReady == [AppStart EXCEPT !.pc = "ready"]

\* an item a previous session left, or one that does not parse
CorruptItem == <<"[", "\"", "k1">>
StoredItems == {NoItem, CorruptItem} \cup {Stringify(l) : l \in KeyLists}

\* The effects of the first commit, in the order they are declared. The load
\* effect sets isAiStudio and the key list (the state of the next render); the
\* persist effect runs in the same pass with the state of the first render,
\* isAiStudio false and apiKeys [], and writes the item.
AppMount ==
    /\ app.pc = "start"
    /\ apiKeys' = IF envApiKey THEN <<EnvKey>> ELSE LoadedKeys(storage)
    /\ storage' = Stringify(<<>>)
    /\ app' = [app EXCEPT !.pc = "committed", !.isAiStudio = envApiKey,
                          !.isKeyManagerOpen = ~envApiKey /\ LoadedKeys(storage) = <<>>]
    /\ UNCHANGED <<now, apiKeyIndex, video, generatedVideos, jobCount>>

\* The render that follows the state updates of the load effect: the persist
\* effect runs again when apiKeys or isAiStudio changed, and writes unless
\* isAiStudio is set.
AppRerender ==
    /\ app.pc = "committed"
    /\ storage' = IF (apiKeys # <<>> \/ app.isAiStudio) /\ ~app.isAiStudio
                  THEN Stringify(apiKeys)
                  ELSE storage
    /\ app' = [app EXCEPT !.pc = "ready"]
    /\ UNCHANGED <<now, apiKeys, apiKeyIndex, video, generatedVideos, jobCount>>

\* the key manager is rendered only when isAiStudio is not set, and shows its
\* form only when it is open
KeyManagerShown == app.pc = "ready" /\ ~app.isAiStudio /\ app.isKeyManagerOpen

AppAddKey == KeyManagerShown /\ HandleAddKey /\ UNCHANGED app

AppDeleteKey == KeyManagerShown /\ HandleDeleteKey /\ UNCHANGED app

\* onOpenApiKeyManager of Navbar and openKeyManager of the creators
OpenKeyManager ==
    /\ app.pc = "ready"
    /\ ~app.isKeyManagerOpen
    /\ app' = [app EXCEPT !.isKeyManagerOpen = TRUE]
    /\ UNCHANGED <<now, apiKeys, storage, apiKeyIndex, video, generatedVideos, jobCount>>

\* onClose of ApiKeyManager
CloseKeyManager ==
    /\ KeyManagerShown
    /\ app' = [app EXCEPT !.isKeyManagerOpen = FALSE]
    /\ UNCHANGED <<now, apiKeys, storage, apiKeyIndex, video, generatedVideos, jobCount>>

\* onNavigate of Navbar: setActivePage
Navigate ==
    /\ app.pc = "ready"
    /\ \E page \in {"image", "video"} :
         page # app.activePage /\ app' = [app EXCEPT !.activePage = page]
    /\ UNCHANGED <<now, apiKeys, storage, apiKeyIndex, video, generatedVideos, jobCount>>

\* the page is loaded again on the same storage
AppReload ==
    /\ app.pc = "ready"
    /\ app' = AppStart
    /\ apiKeys' = <<>>
    /\ UNCHANGED <<now, storage, apiKeyIndex, video, generatedVideos, jobCount>>

----------------------------------------------------------------------------
(* VideoCreator: the batch input, the uploaded images and the request parameters *)

\* the characters the batch input is typed from; the text is a sequence of them
NewLine == "\n"
Space == " "
InputChars == {"a", "b", Space, NewLine}
WhiteSpace == {Space, NewLine}

RECURSIVE TextsUpTo(_)
TextsUpTo(n) ==
    IF n = 0 THEN {<<>>}
    ELSE LET shorter == TextsUpTo(n - 1)
         IN  shorter \cup {Append(t, c) : t \in {x \in shorter : Len(x) = n - 1},
                                          c \in InputChars}

BatchInputs == TextsUpTo(MaxInputLen)

\* the data URLs of the files read, told apart by the order they were read in
ImagePool == 1..MaxImages

\* null
NoImage == 0

\* text.split('\n'): the pieces between the line feeds, one more than there
\* are line feeds
RECURSIVE Split(_)
Split(text) ==
    IF text = <<>> THEN << <<>> >>
    ELSE LET rest == Split(Tail(text))
         IN  IF Head(text) = NewLine THEN << <<>> >> \o rest
             ELSE << <<Head(text)>> \o Head(rest) >> \o Tail(rest)

RECURSIVE TrimStart(_)
TrimStart(text) ==
    IF text # <<>> /\ Head(text) \in WhiteSpace THEN TrimStart(Tail(text)) ELSE text

RECURSIVE TrimEnd(_)
TrimEnd(text) ==
    IF text # <<>> /\ text[Len(text)] \in WhiteSpace
    THEN TrimEnd(SubSeq(text, 1, Len(text) - 1)) ELSE text

\* text.trim()
TrimText(text) == TrimEnd(TrimStart(text))

\* the mutation of PromptsToProcess in which the blank lines stay in the list
PromptsToProcess_KeepsBlanks(batchInput) ==
    LET lines == Split(batchInput) IN [n \in 1..Len(lines) |-> TrimText(lines[n])]

\* batchInput.split('\n').map(p => p.trim()).filter(Boolean)
PromptsToProcess(batchInput) ==
    LET lines == Split(batchInput)
        trimmed == [n \in 1..Len(lines) |-> TrimText(lines[n])]
    IN  SelectSeq(trimmed, LAMBDA p : p # <<>>)

\* inputImages.length > index ? inputImages[index] : null, index counted from 0
ImageForThisPrompt(inputImages, index) ==
    IF Len(inputImages) > index THEN inputImages[index + 1] ELSE NoImage

PairingIdle == [batchInput |-> <<>>, inputImages |-> <<>>, built |-> FALSE,
                closureImages |-> <<>>, params |-> <<>>]

\* setInputImages(prev => [...prev, ...newImages]) of readFiles in the batch
\* tab, for one file that was not read before
AddImage ==
    /\ Len(pairing.inputImages) < MaxImages
    /\ \E image \in ImagePool \ Range(pairing.inputImages) :
          pairing' = [pairing EXCEPT !.inputImages = Append(@, image)]

\* handleRemoveImage(indexToRemove), index counted from 0
HandleRemoveImage ==
    \E indexToRemove \in 0..(Len(pairing.inputImages) - 1) :
        pairing' = [pairing EXCEPT !.inputImages =
                       SubSeq(@, 1, indexToRemove) \o SubSeq(@, indexToRemove + 2, Len(@))]

\* setInputImages([]) of the Clear All Images button
ClearImages ==
    /\ pairing.inputImages # <<>>
    /\ pairing' = [pairing EXCEPT !.inputImages = <<>>]

\* handleGenerateVideo in the batch tab, as far as the parameters of its
\* requests go: one request per entry of promptsToProcess, in order, with
\* the image at the entry's index in the inputImages of the closure.  The
\* handler returns before building anything when no prompt is left.
BuildBatchParams ==
    LET promptsToProcess == PromptsToProcess(pairing.batchInput)
    IN  /\ promptsToProcess # <<>>
        /\ pairing' = [pairing EXCEPT
               !.built = TRUE,
               !.closureImages = pairing.inputImages,
               !.params = [k \in 1..Len(promptsToProcess) |->
                              [prompt |-> promptsToProcess[k],
                               image |-> ImageForThisPrompt(pairing.inputImages, k - 1)]]]

----------------------------------------------------------------------------
(* ImageCreator: handleEnhancePrompt and handleGenerate in progress at once *)

\* The Generate button is disabled by isGenerating and isBatchGeneratingPrompts
\* and not by isEnhancing, so handleGenerate can start while the dispatch of
\* handleEnhancePrompt is awaited; the Enhance button is disabled by both flags.
Slots == {"enhance", "generate"}

SlotIdle == [pc |-> "idle", cls |-> "none", availableModels |-> <<>>, pos |-> 0,
             textBlacklist |-> EmptyMap, imageBlacklist |-> EmptyMap,
             model |-> IMAGEN_MODELS[1], failed |-> <<>>]

OverlapIdle == [s \in Slots |-> SlotIdle]

\* isEnhancing, isGenerating
SlotBusy(s) == overlap[s].pc \in {"await", "between"}

OtherSlot(s) == IF s = "enhance" THEN "generate" ELSE "enhance"

\* a handler at its start, with the state its closure holds
SlotStarted ==
    [SlotIdle EXCEPT !.textBlacklist = modelBlacklist,
                     !.imageBlacklist = imagenModelBlacklist,
                     !.model = model]

\* where a handler stands once its dispatch has returned or thrown:
\* handleGenerate goes on to handleAutoMetadata after its images, every other
\* dispatch is the handler's last
AfterDispatch(s, cls, returned) ==
    IF s = "generate" /\ cls = "image" /\ returned THEN "between" ELSE "ended"

\* callGeminiApi / generateImagesForPrompt up to the first await, in handler s
SlotDispatch(s, rec, cls) ==
    LET closureBlacklist == IF cls = "text" THEN rec.textBlacklist ELSE rec.imageBlacklist
        avail == AvailableModels(ClassModels(cls, rec.model), closureBlacklist, now)
    IN  IF ~envApiKey \/ avail = <<>>
        THEN [rec EXCEPT !.cls = cls, !.availableModels = <<>>, !.pos = 0,
                         !.pc = AfterDispatch(s, cls, FALSE)]
        ELSE [rec EXCEPT !.cls = cls, !.availableModels = avail, !.pos = 1,
                         !.pc = "await"]

\* handleEnhancePrompt up to its first await
EnhanceStarts ==
    /\ ~SlotBusy("enhance") /\ ~SlotBusy("generate")
    /\ jobCount < MaxJobs
    /\ jobCount' = jobCount + 1
    /\ overlap' = [overlap EXCEPT !["enhance"] = SlotDispatch("enhance", SlotStarted, "text")]
    /\ UNCHANGED <<now, modelBlacklist, imagenModelBlacklist, modelFailedAt>>

\* handleGenerate up to its first await
GenerateStarts ==
    /\ ~SlotBusy("generate")
    /\ jobCount < MaxJobs
    /\ jobCount' = jobCount + 1
    /\ overlap' = [overlap EXCEPT
                      !["generate"] = SlotDispatch("generate", SlotStarted, "image")]
    /\ UNCHANGED <<now, modelBlacklist, imagenModelBlacklist, modelFailedAt>>

\* handleAutoMetadata of handleGenerate up to its first await
MetadataStarts ==
    /\ overlap["generate"].pc = "between"
    /\ overlap' = [overlap EXCEPT
                      !["generate"] = SlotDispatch("generate", overlap["generate"], "text")]
    /\ UNCHANGED <<now, jobCount, modelBlacklist, imagenModelBlacklist, modelFailedAt>>

\* the mutation of UpdateBlacklist in which the new map is built from the map
\* of the closure
UpdateBlacklist_FromClosure(prev, closureBlacklist, m, t) ==
    MapSet(closureBlacklist, m, CooldownExpiry(t))

\* setModelBlacklist(prev => new Map(prev).set(model, expiryTime)) and
\* setImagenModelBlacklist(prev => ...): the updater is given the state as it
\* is when the update is applied, whatever the closure of the handler holds
UpdateBlacklist(prev, closureBlacklist, m, t) == MapSet(prev, m, CooldownExpiry(t))

\* The continuation of the dispatch of handler s after its callApiWithRetry
\* has settled with a response or an error.
AwaitSettles ==
    \E s \in Slots, outcome \in DispatchOutcomes :
        LET rec == overlap[s]
            cls == rec.cls
            m == rec.availableModels[rec.pos]
            success == outcome.kind = "ok"
            error == IF IsError(outcome) THEN outcome ELSE MalformedError(cls)
            rateLimited == ~success /\ IsRateLimitError(error)
            marks == MarksCooldown(success, error)
            noted == [rec EXCEPT !.failed =
                         IF marks
                         THEN Append(@, [model |-> m, at |-> now,
                                         beside |-> overlap[OtherSlot(s)].pc = "await"])
                         ELSE @]
        IN  /\ rec.pc = "await"
            /\ modelBlacklist' =
                 IF marks /\ cls = "text"
                 THEN UpdateBlacklist(modelBlacklist, rec.textBlacklist, m, now)
                 ELSE modelBlacklist
            /\ imagenModelBlacklist' =
                 IF marks /\ cls = "image"
                 THEN UpdateBlacklist(imagenModelBlacklist, rec.imageBlacklist, m, now)
                 ELSE imagenModelBlacklist
            /\ modelFailedAt' =
                 IF marks THEN NoteFailure(modelFailedAt, m, now) ELSE modelFailedAt
            /\ overlap' = [overlap EXCEPT ![s] =
                 IF success THEN [noted EXCEPT !.pc = AfterDispatch(s, cls, TRUE)]
                 ELSE IF rateLimited /\ rec.pos < Len(rec.availableModels)
                 THEN [noted EXCEPT !.pos = rec.pos + 1]
                 ELSE [noted EXCEPT !.pc = AfterDispatch(s, cls, FALSE)]]
            /\ UNCHANGED <<now, jobCount>>

\* time passes while the handlers wait, or between two of them
OverlapTick ==
    /\ jobCount > 0
    /\ Tick
    /\ UNCHANGED <<jobCount, overlap, modelBlacklist, imagenModelBlacklist, modelFailedAt>>

----------------------------------------------------------------------------
(* Specifications *)

ClassifyVars == <<clsErr, clsResult>>

KeyStateVars == <<activeKeyIndex, keyCooldowns, lastKey, keyFailedAt, lastFailed>>

PoolVars == <<apiKeys, storage, KeyStateVars>>

DispatchVars == <<model, tempEnhanced, modelBlacklist, imagenModelBlacklist, run, disp,
                  modelFailedAt, selections, envApiKey>>

VideoVars == <<apiKeyIndex, video, generatedVideos>>

UpscaleVars == <<cards, isUpscaling, upscales, batchUpscale, generation, upscaleEnded>>

EditVars == <<pairing, overlap>>

UiVars == <<app, fetcher, UpscaleVars, EditVars>>

\* the parts of the application a specification leaves at rest
ClassifyIdle == clsErr = EFatal /\ clsResult = "none"

RetryAtRest == retry = RetryIdle /\ now = 0

EditIdle == pairing = PairingIdle /\ overlap = OverlapIdle

UiIdle == app = AppReady /\ fetcher = FetchIdle /\ UpscaleInit /\ EditIdle

PoolIdle ==
    /\ apiKeys = <<>>
    /\ activeKeyIndex = 0
    /\ keyCooldowns = EmptyMap
    /\ lastKey = NoneReturned
    /\ keyFailedAt = EmptyMap
    /\ lastFailed = NoneFailed
    /\ storage = Stringify(apiKeys)

\* The classifier applied to every error.
InitClassify ==
    ClassifyInit /\ RetryAtRest /\ PoolIdle /\ DispatchInit /\ VideoInit /\ jobCount = 0 /\ UiIdle

NextClassify ==
    \/ Classify /\ UNCHANGED <<now, retry, PoolVars, DispatchVars, VideoVars, jobCount, UiVars>>
    \/ ThrowError /\ UNCHANGED <<now, retry, PoolVars, DispatchVars, VideoVars, jobCount, UiVars>>

SpecClassify == InitClassify /\ [][NextClassify]_vars

\* callApiWithRetry on its own, over every backend script.
InitRetry ==
    ClassifyIdle /\ RetryInit /\ PoolIdle /\ DispatchInit /\ VideoInit /\ jobCount = 0 /\ UiIdle

NextRetry ==
    \/ CallApiWithRetry
          /\ UNCHANGED <<ClassifyVars, PoolVars, DispatchVars, VideoVars, jobCount, UiVars>>
    \/ ApiCall /\ UNCHANGED <<ClassifyVars, PoolVars, DispatchVars, VideoVars, jobCount, UiVars>>
    \/ BackoffElapsed
          /\ UNCHANGED <<ClassifyVars, PoolVars, DispatchVars, VideoVars, jobCount, UiVars>>

SpecRetry == InitRetry /\ [][NextRetry]_vars

\* The credential pool of App.
InitPool ==
    ClassifyIdle /\ RetryAtRest /\ PoolInit /\ DispatchInit /\ VideoInit /\ jobCount = 0 /\ UiIdle

NextPool ==
    \/ GetNextAvailableKey
          /\ UNCHANGED <<ClassifyVars, retry, DispatchVars, VideoVars, jobCount, UiVars>>
    \/ CycleToNextKey
          /\ UNCHANGED <<ClassifyVars, retry, DispatchVars, VideoVars, jobCount, UiVars>>
    \/ HandleSave
          /\ UNCHANGED <<ClassifyVars, retry, DispatchVars, VideoVars, jobCount, UiVars>>
    \/ NewSession
          /\ UNCHANGED <<ClassifyVars, retry, DispatchVars, VideoVars, jobCount, UiVars>>
    \/ Tick /\ UNCHANGED <<ClassifyVars, retry, PoolVars, DispatchVars, VideoVars, jobCount, UiVars>>

SpecPool == InitPool /\ [][NextPool]_vars

\* The handlers of ImageCreator and the two dispatchers.
DispatchInitAnyBuild ==
    /\ model = IMAGEN_MODELS[1]
    /\ tempEnhanced = FALSE
    /\ modelBlacklist = EmptyMap
    /\ imagenModelBlacklist = EmptyMap
    /\ run = RunNone
    /\ disp = DispIdle
    /\ modelFailedAt = EmptyMap
    /\ selections = 0
    /\ envApiKey \in BOOLEAN

InitDispatch ==
    ClassifyIdle /\ RetryInit /\ PoolIdle /\ DispatchInitAnyBuild /\ VideoInit
    /\ jobCount = 0 /\ UiIdle

NextDispatch ==
    \/ SelectModel /\ UNCHANGED <<ClassifyVars, PoolVars, VideoVars, UiVars>>
    \/ HandleGenerate /\ UNCHANGED <<ClassifyVars, PoolVars, VideoVars, UiVars>>
    \/ HandleEnhancePrompt /\ UNCHANGED <<ClassifyVars, PoolVars, VideoVars, UiVars>>
    \/ ApiCall /\ disp.pc = "await"
          /\ UNCHANGED <<ClassifyVars, PoolVars, DispatchVars, VideoVars, jobCount, UiVars>>
    \/ BackoffElapsed /\ disp.pc = "await"
          /\ UNCHANGED <<ClassifyVars, PoolVars, DispatchVars, VideoVars, jobCount, UiVars>>
    \/ DispatchSettle /\ UNCHANGED <<ClassifyVars, PoolVars, VideoVars, UiVars>>
    \/ HandlerContinue /\ UNCHANGED <<ClassifyVars, PoolVars, VideoVars, UiVars>>
    \/ DispatchTick
          /\ UNCHANGED <<ClassifyVars, retry, PoolVars, DispatchVars, VideoVars, jobCount, UiVars>>

SpecDispatch == InitDispatch /\ [][NextDispatch]_vars

\* VideoCreator and the key list of App.
InitVideo ==
    ClassifyIdle /\ RetryAtRest /\ PoolInit /\ DispatchInit /\ VideoInit /\ jobCount = 0 /\ UiIdle

NextVideo ==
    \/ HandleGenerateVideo /\ UNCHANGED <<ClassifyVars, retry, KeyStateVars, DispatchVars, storage, UiVars>>
    \/ GenerateVideosSettles
          /\ UNCHANGED <<ClassifyVars, retry, KeyStateVars, DispatchVars, storage, UiVars>>
    \/ PollWait /\ UNCHANGED <<ClassifyVars, retry, KeyStateVars, DispatchVars, storage, UiVars>>
    \/ GetVideosOperationSettles
          /\ UNCHANGED <<ClassifyVars, retry, KeyStateVars, DispatchVars, storage, UiVars>>
    \/ FetchSettles /\ UNCHANGED <<ClassifyVars, retry, KeyStateVars, DispatchVars, storage, UiVars>>
    \/ VideoHandleEnhancePrompt
          /\ UNCHANGED <<ClassifyVars, retry, KeyStateVars, DispatchVars, storage, UiVars>>
    \/ GenerateContentSettles
          /\ UNCHANGED <<ClassifyVars, retry, KeyStateVars, DispatchVars, storage, UiVars>>
    \/ HandleAddKey /\ UNCHANGED <<ClassifyVars, retry, KeyStateVars, DispatchVars, UiVars>>
    \/ HandleDeleteKey /\ UNCHANGED <<ClassifyVars, retry, KeyStateVars, DispatchVars, UiVars>>

SpecVideo == InitVideo /\ [][NextVideo]_vars

\* VideoCreator with every pending backend call and every pending timer
\* eventually settling, and a polling loop that is not cut at the horizon.
VideoRest == <<ClassifyVars, retry, KeyStateVars, DispatchVars, storage, UiVars>>

NextVideoLive ==
    \/ HandleGenerateVideo /\ UNCHANGED VideoRest
    \/ GenerateVideosSettles /\ UNCHANGED VideoRest
    \/ PollWaitOn /\ UNCHANGED VideoRest
    \/ GetVideosOperationSettlesOn /\ UNCHANGED VideoRest
    \/ FetchSettles /\ UNCHANGED VideoRest
    \/ VideoHandleEnhancePrompt /\ UNCHANGED VideoRest
    \/ GenerateContentSettles /\ UNCHANGED VideoRest

FairVideo ==
    /\ WF_vars(GenerateVideosSettles /\ UNCHANGED VideoRest)
    /\ WF_vars(PollWaitOn /\ UNCHANGED VideoRest)
    /\ WF_vars(GetVideosOperationSettlesOn /\ UNCHANGED VideoRest)
    /\ WF_vars(FetchSettles /\ UNCHANGED VideoRest)
    /\ WF_vars(GenerateContentSettles /\ UNCHANGED VideoRest)

SpecVideoLive == InitVideo /\ [][NextVideoLive]_vars /\ FairVideo

\* App of App.tsx from its first render, in a build with and without
\* process.env.API_KEY, on every item an earlier session can have left.
AppRest == <<ClassifyVars, retry, KeyStateVars, DispatchVars, fetcher, UpscaleVars,
             EditVars>>

InitApp ==
    /\ ClassifyIdle /\ RetryAtRest /\ DispatchInitAnyBuild /\ VideoInit /\ jobCount = 0
    /\ apiKeys = <<>>
    /\ activeKeyIndex = 0
    /\ keyCooldowns = EmptyMap
    /\ lastKey = NoneReturned
    /\ keyFailedAt = EmptyMap
    /\ lastFailed = NoneFailed
    /\ storage \in StoredItems
    /\ app = AppStart
    /\ fetcher = FetchIdle
    /\ UpscaleInit
    /\ EditIdle

NextApp ==
    \/ AppMount /\ UNCHANGED AppRest
    \/ AppRerender /\ UNCHANGED AppRest
    \/ AppAddKey /\ UNCHANGED AppRest
    \/ AppDeleteKey /\ UNCHANGED AppRest
    \/ AppReload /\ UNCHANGED AppRest
    \/ OpenKeyManager /\ UNCHANGED AppRest
    \/ CloseKeyManager /\ UNCHANGED AppRest
    \/ Navigate /\ UNCHANGED AppRest

SpecApp == InitApp /\ [][NextApp]_vars

\* fetchWithRetry on its own, over every sequence of responses.
FetchRest == <<ClassifyVars, retry, PoolVars, DispatchVars, VideoVars, jobCount, app,
              UpscaleVars, EditVars>>

InitFetch ==
    ClassifyIdle /\ RetryAtRest /\ PoolIdle /\ DispatchInit /\ VideoInit /\ jobCount = 0
    /\ UiIdle

NextFetch ==
    \/ FetchWithRetry /\ UNCHANGED FetchRest
    \/ FetchAnswers /\ UNCHANGED FetchRest
    \/ FetchWaitElapsed /\ UNCHANGED FetchRest

SpecFetch == InitFetch /\ [][NextFetch]_vars

\* The upscaler under every interleaving of the card buttons, the batch button
\* and a generation run with and without auto-upscale.
UpscaleRest == <<now, ClassifyVars, retry, PoolVars, DispatchVars, VideoVars, jobCount,
                 app, fetcher, EditVars>>

InitUpscale ==
    ClassifyIdle /\ RetryAtRest /\ PoolIdle /\ DispatchInit /\ VideoInit /\ jobCount = 0
    /\ UiIdle

NextUpscale ==
    \/ GenerationStarts /\ UNCHANGED UpscaleRest
    \/ CardGenerated /\ UNCHANGED UpscaleRest
    \/ GenerationEnds /\ UNCHANGED UpscaleRest
    \/ HandleUpscale /\ UNCHANGED UpscaleRest
    \/ HandleBatchUpscale /\ UNCHANGED UpscaleRest
    \/ UpscaleSettles /\ UNCHANGED UpscaleRest

SpecUpscale == InitUpscale /\ [][NextUpscale]_vars

\* The batch tab of VideoCreator on every batch input, under every sequence
\* of uploads and removals of images.
PairingRest == <<now, ClassifyVars, retry, PoolVars, DispatchVars, VideoVars, jobCount,
                 app, fetcher, UpscaleVars, overlap>>

InitPairing ==
    ClassifyIdle /\ RetryAtRest /\ PoolIdle /\ DispatchInit /\ VideoInit /\ jobCount = 0
    /\ app = AppReady /\ fetcher = FetchIdle /\ UpscaleInit
    /\ overlap = OverlapIdle
    /\ \E text \in BatchInputs : pairing = [PairingIdle EXCEPT !.batchInput = text]

NextPairing ==
    \/ AddImage /\ UNCHANGED PairingRest
    \/ HandleRemoveImage /\ UNCHANGED PairingRest
    \/ ClearImages /\ UNCHANGED PairingRest
    \/ BuildBatchParams /\ UNCHANGED PairingRest

SpecPairing == InitPairing /\ [][NextPairing]_vars


\* handleEnhancePrompt and handleGenerate of ImageCreator, one beside the
\* other, under every outcome of the calls they await.
OverlapRest == <<ClassifyVars, retry, PoolVars, model, tempEnhanced, run, disp,
                 selections, envApiKey, VideoVars, app, fetcher, UpscaleVars, pairing>>

InitOverlap ==
    ClassifyIdle /\ RetryAtRest /\ PoolIdle /\ DispatchInit /\ VideoInit /\ jobCount = 0
    /\ UiIdle

NextOverlap ==
    \/ EnhanceStarts /\ UNCHANGED OverlapRest
    \/ GenerateStarts /\ UNCHANGED OverlapRest
    \/ MetadataStarts /\ UNCHANGED OverlapRest
    \/ AwaitSettles /\ UNCHANGED OverlapRest
    \/ OverlapTick /\ UNCHANGED OverlapRest

SpecOverlap == InitOverlap /\ [][NextOverlap]_vars

----------------------------------------------------------------------------
(* Claims about callApiWithRetry *)

RetryDone == retry.pc \in {"returned", "thrown"}

\* the operation fails k times with a rate-limit error and then succeeds
FailsThenSucceeds(script, k) ==
    /\ k + 1 \in DOMAIN script
    /\ \A j \in 1..k : IsError(script[j]) /\ IsRateLimitError(script[j])
    /\ script[k + 1].kind = "ok"

\* C3: an operation that fails k times with a rate-limit error and then
\* succeeds, k < retries, is invoked at most k+1 times; when callApiWithRetry
\* ends it has returned the success value after exactly k+1 invocations, and
\* the wait before retry number i (i = 0..k-1) was delay * 2^i.
C3_RetryThenSuccess ==
    \A k \in 0..MaxRetries :
        (retry.pc # "idle" /\ k < retry.retries /\ FailsThenSucceeds(retry.script, k)) =>
            /\ retry.calls <= k + 1
            /\ Len(retry.waits) <= k
            /\ \A j \in DOMAIN retry.waits : retry.waits[j] = retry.delay * Pow2(j - 1)
            /\ RetryDone =>
                 /\ retry.pc = "returned"
                 /\ retry.result = retry.script[k + 1]
                 /\ retry.calls = k + 1
                 /\ Len(retry.waits) = k

C3_Witness ==
    /\ retry.pc = "returned"
    /\ retry.retries = 3
    /\ FailsThenSucceeds(retry.script, 2)
    /\ retry.calls = 3
    /\ retry.waits = <<retry.delay, 2 * retry.delay>>

\* C4: when the first call fails with an error that carries no rate-limit
\* signal, for every retries >= 1 the operation is invoked exactly once, no
\* backoff wait happens and that same error is raised.
C4_FatalRaisedAtOnce ==
    (/\ retry.pc # "idle"
     /\ retry.retries >= 1
     /\ IsError(retry.script[1])
     /\ ~IsRateLimitError(retry.script[1])) =>
        /\ retry.calls <= 1
        /\ retry.waits = <<>>
        /\ retry.pc \in {"call", "thrown"}
        /\ retry.pc = "thrown" => (retry.calls = 1 /\ retry.result = retry.script[1])

C4_Witness ==
    /\ retry.pc = "thrown"
    /\ retry.retries = 3
    /\ retry.script[1] = EFatal
    /\ retry.calls = 1
    /\ retry.result = EFatal

\* every attempt fails with a rate-limit error
AllAttemptsRateLimited(r) ==
    /\ r.retries >= 1
    /\ \A j \in 1..r.retries : IsError(r.script[j]) /\ IsRateLimitError(r.script[j])

\* C5: when every attempt fails with a rate-limit error the operation is
\* invoked exactly retries times, never more; retries - 1 waits happen, none
\* after the final attempt, and the error raised is the last attempt's error.
C5_ExhaustedRaisesLastError ==
    (retry.pc # "idle" /\ AllAttemptsRateLimited(retry)) =>
        /\ retry.calls <= retry.retries
        /\ Len(retry.waits) <= retry.retries - 1
        /\ retry.pc # "returned"
        /\ retry.pc = "thrown" =>
             /\ retry.calls = retry.retries
             /\ Len(retry.waits) = retry.retries - 1
             /\ retry.result = retry.script[retry.retries]

C5_Witness ==
    /\ retry.pc = "thrown"
    /\ retry.retries = 3
    /\ retry.script = <<E429, E429, EQuota>>
    /\ retry.calls = 3
    /\ retry.result = EQuota

----------------------------------------------------------------------------
(* Claims about the classifier *)

RateLimitWords == {"rate limit", "resource_exhausted", "quota"}

\* the text holds "429" or, compared case-insensitively, a rate-limit word
HasSignal(s) ==
    \/ Includes(s, "429")
    \/ \E w \in RateLimitWords : Includes(ToLowerCase(s), w)

\* C6 as stated: Retryable iff the message or the string form holds a signal.
C6_AsStated ==
    clsResult # "none" =>
        (clsResult = "Retryable" <=>
            (HasSignal(MessageOrEmpty(clsErr)) \/ HasSignal(ErrorToString(clsErr))))

\* C6, amended: Retryable iff the string form holds "429" or the message,
\* lower-cased, holds a rate-limit word. By the shape of the thrown value:
\* an Error instance is Retryable iff its message holds any signal; a thrown
\* string (no message) iff it holds "429"; a plain object with a message iff
\* the message holds a rate-limit word. Every other error is Fatal.
C6_Classifier ==
    clsResult # "none" =>
        /\ clsResult \in {"Retryable", "Fatal"}
        /\ clsResult = "Retryable" <=>
             \/ clsErr.kind = "Error" /\ HasSignal(clsErr.text)
             \/ clsErr.kind = "string" /\ Includes(clsErr.text, "429")
             \/ /\ clsErr.kind = "object"
                /\ \E w \in RateLimitWords : Includes(ToLowerCase(clsErr.text), w)

C6_Witness ==
    /\ clsResult = "Fatal"
    /\ clsErr = SQuota

----------------------------------------------------------------------------
(* Claims about the credential pool *)

\* C1: getNextAvailableKey never returns a key whose cooldown entry expires
\* later than now: the key it returns is a key of the pool that has no entry
\* or whose stored expiry has passed, and it returns no key only when every
\* key of the pool has an entry whose expiry has not passed.
C1_Returned ==
    LET k == lastKey'.key
    IN  /\ k # NoKey =>
              /\ lastKey'.index \in 0..(Len(apiKeys) - 1)
              /\ apiKeys[lastKey'.index + 1] = k
              /\ ~Has(keyCooldowns, k) \/ keyCooldowns[k] < now
        /\ k = NoKey =>
              \A key \in Range(apiKeys) :
                  Has(keyCooldowns, key) /\ keyCooldowns[key] >= now

C1_NeverReturnsCooledKey == [][GetNextAvailableKey => C1_Returned]_vars

\* a key in cooldown at the cursor was skipped and a later key returned
C1_Witness ==
    /\ lastKey.key # NoKey
    /\ lastKey.offset > 0
    /\ lastKey.index = activeKeyIndex
    /\ \E k \in Range(apiKeys) :
          k # lastKey.key /\ Has(keyCooldowns, k) /\ keyCooldowns[k] > now

\* getNextAvailableKey, called with the cursor on key k, returns k
KeyOffered(k) ==
    \E j \in 1..Len(apiKeys) :
        apiKeys[j] = k /\ NextAvailable(apiKeys, j - 1, keyCooldowns, now).key = k

\* C2 as stated: a key marked failed at time t is excluded at every time
\* before t + 60000 and offered again from t + 60000 on, that instant included.
C2_AsStated ==
    \A k \in Range(apiKeys) :
        Has(keyFailedAt, k) =>
            LET e == keyFailedAt[k] + CooldownMs
            IN  /\ now < e => ~KeyOffered(k)
                /\ now >= e => KeyOffered(k)

\* C2: a key marked failed by cycleToNextKey at time t is excluded by
\* getNextAvailableKey at every time up to and including t + 60000, and is
\* offered again at every time later than t + 60000.
C2_CooldownBoundary ==
    \A k \in Range(apiKeys) :
        Has(keyFailedAt, k) =>
            LET e == keyFailedAt[k] + CooldownMs
            IN  /\ now <= e => ~KeyOffered(k)
                /\ now > e => KeyOffered(k)

\* the instant of the expiry: the key is still excluded
C2_Witness ==
    \E k \in Range(apiKeys) :
        /\ Has(keyFailedAt, k)
        /\ now = keyFailedAt[k] + CooldownMs
        /\ ~KeyOffered(k)

\* the pool holds a key other than c that is not in cooldown
OtherKeyAvailable(c) ==
    \E k \in Range(apiKeys) : k # c /\ NotInCooldown(keyCooldowns, k, now)

\* the first getNextAvailableKey after cycleToNextKey(c) returns another key
NextKeyDiffers == lastKey'.key \notin {lastFailed.key, NoKey}

\* C21 as stated: cycleToNextKey(c) records the expiry now + 60000 for c and
\* advances the cursor by one modulo the pool size, and the next
\* getNextAvailableKey returns a key other than c whenever the pool holds
\* another key that is not in cooldown.
C21_AsStated ==
    [][/\ CycleToNextKey =>
              /\ keyCooldowns'[lastFailed'.key] = now + CooldownMs
              /\ activeKeyIndex' = CursorAfterFailure(activeKeyIndex, Len(apiKeys))
       /\ (GetNextAvailableKey /\ lastFailed.key # NoKey
              /\ OtherKeyAvailable(lastFailed.key)) => NextKeyDiffers]_vars

\* C21: cycleToNextKey(c) records the expiry now + 60000 for c and advances the
\* cursor by one modulo the pool size; the next getNextAvailableKey returns a
\* key other than c whenever the pool holds another key that is not in
\* cooldown and either the cooldown of c has not passed or c was the key at the
\* cursor when it was marked and the list has not been saved since.
C21_MarkFailedRotates ==
    [][/\ CycleToNextKey =>
              /\ keyCooldowns'[lastFailed'.key] = now + CooldownMs
              /\ activeKeyIndex' = CursorAfterFailure(activeKeyIndex, Len(apiKeys))
       /\ (GetNextAvailableKey /\ lastFailed.key # NoKey
              /\ OtherKeyAvailable(lastFailed.key)
              /\ (now <= lastFailed.at + CooldownMs \/ lastFailed.atCursor))
            => NextKeyDiffers]_vars

\* the key at the cursor was marked failed, its cooldown has passed, and the
\* cursor is on another key that getNextAvailableKey returns
C21_Witness ==
    /\ lastFailed.key # NoKey
    /\ lastFailed.atCursor
    /\ now > lastFailed.at + CooldownMs
    /\ Len(apiKeys) >= 2
    /\ NextAvailable(apiKeys, activeKeyIndex, keyCooldowns, now).key
           \notin {lastFailed.key, NoKey}

\* the key at cyclic distance i from the cursor
KeyFromCursor(i) == apiKeys[((activeKeyIndex + i) % Len(apiKeys)) + 1]

C22_Returned ==
    /\ lastKey'.key = NoKey <=>
           \/ Len(apiKeys) = 0
           \/ \A k \in Range(apiKeys) : ~NotInCooldown(keyCooldowns, k, now)
    /\ lastKey'.key # NoKey =>
           \E i \in 0..(Len(apiKeys) - 1) :
               /\ lastKey'.index = (activeKeyIndex + i) % Len(apiKeys)
               /\ lastKey'.key = KeyFromCursor(i)
               /\ NotInCooldown(keyCooldowns, KeyFromCursor(i), now)
               /\ \A j \in 0..(i - 1) : ~NotInCooldown(keyCooldowns, KeyFromCursor(j), now)
               /\ activeKeyIndex' = lastKey'.index

\* C22: getNextAvailableKey returns the first key not in cooldown in cyclic
\* order from the cursor, wrapping around the pool (and leaves the cursor on
\* it), and returns no key iff the pool is empty or every key is in cooldown.
C22_FirstAvailableFromCursor == [][GetNextAvailableKey => C22_Returned]_vars

\* the scan wrapped around a pool of three keys: the keys at the cursor and
\* after it were in cooldown and the key at the head of the list was returned
C22_Witness ==
    /\ Len(apiKeys) = 3
    /\ lastKey.key = apiKeys[1]
    /\ lastKey.offset > 0
    /\ activeKeyIndex = 0
    /\ lastFailed = NoneFailed
    /\ \E k \in Range(apiKeys) : ~NotInCooldown(keyCooldowns, k, now)

\* C23 as stated: the cooldown map never holds an entry for a value that is not
\* in the pool (removing a key drops its entry, so that a key added again is
\* eligible at once).
C23_AsStated == \A k \in DOMAIN keyCooldowns : k \in Range(apiKeys)

\* What the code keeps instead: saving a key list leaves the cooldown map as it
\* is, entries of removed keys included.
SaveKeepsCooldowns == [][apiKeys' # apiKeys /\ apiKeys' # <<>> /\ now' = now
                           /\ keyFailedAt' = keyFailedAt
                         => keyCooldowns' = keyCooldowns]_vars

\* The cursor of the pool of App (Navbar.tsx) is a valid index of a non-empty
\* pool: the save effect brings it back in range when the list shrinks.
PoolCursorInRange == apiKeys # <<>> => activeKeyIndex \in 0..(Len(apiKeys) - 1)

\* two keys of the pool at least are not in cooldown
TwoKeysEligible ==
    \E a, b \in Range(apiKeys) :
        a # b /\ NotInCooldown(keyCooldowns, a, now) /\ NotInCooldown(keyCooldowns, b, now)

\* the last selection returned the key the cursor is on, and no key has been
\* marked failed since
SelectedAtCursor ==
    /\ lastKey.key # NoKey
    /\ lastFailed = NoneFailed
    /\ activeKeyIndex < Len(apiKeys)
    /\ apiKeys[activeKeyIndex + 1] = lastKey.key

\* C25 as stated: with two eligible keys at least and no failure, two
\* consecutive selections never return the same key.
C25_AsStated ==
    [][(GetNextAvailableKey /\ SelectedAtCursor /\ TwoKeysEligible) =>
           lastKey'.key # lastKey.key]_vars

\* C25: getNextAvailableKey does not advance the cursor when it returns the key
\* at the cursor: with no failure in between, two consecutive selections return
\* the same key, however many keys are eligible, and the cursor stays on it.
C25_CursorStaysOnConsumedKey ==
    [][(GetNextAvailableKey /\ SelectedAtCursor) =>
           /\ lastKey'.key = lastKey.key
           /\ activeKeyIndex' = activeKeyIndex]_vars

\* a selection has returned the key at the cursor of a pool with two eligible keys
C25_Witness ==
    /\ SelectedAtCursor
    /\ TwoKeysEligible
    /\ lastKey.index = activeKeyIndex
    /\ lastKey.offset = 0

\* the tokens JSON.stringify writes for a list of keys
KeyListTokens == {"[", "]", ",", "\""} \cup Keys

----------------------------------------------------------------------------
(* Claims about the dispatchers *)

\* the filter of the dispatcher of m's class, over the blacklist as stored, keeps m
ModelOffered(m) ==
    IF m \in Range(GEMINI_TEXT_MODELS)
    THEN m \in Range(AvailableModels(GEMINI_TEXT_MODELS, modelBlacklist, now))
    ELSE m \in Range(AvailableModels(PrioritizedModels(model), imagenModelBlacklist, now))

\* The boundary of C2 for the models: a model whose cooldown entry was written
\* at time t is filtered out of the stored blacklist up to and including
\* t + 60000 and kept at every later time.
ModelCooldownBoundary ==
    \A m \in Range(GEMINI_TEXT_MODELS) \cup Range(IMAGEN_MODELS) :
        Has(modelFailedAt, m) =>
            LET e == modelFailedAt[m] + CooldownMs
            IN  /\ now <= e => ~ModelOffered(m)
                /\ now > e => ModelOffered(m)

AllRateLimited(script) ==
    \A j \in DOMAIN script : IsError(script[j]) /\ IsRateLimitError(script[j])

\* the entry of the blacklist for m is the one the dispatch started with
EntryUntouched(m) ==
    /\ Has(Blacklist(disp.cls), m) <=> Has(disp.startBlacklist, m)
    /\ Has(disp.startBlacklist, m) => Blacklist(disp.cls)[m] = disp.startBlacklist[m]

\* C7: in a dispatch over available models [A, B, ...] where every call on A
\* fails with a rate-limit error, the dispatch goes on to B having written
\* one cooldown entry for A; if B then succeeds on its first call the
\* dispatch returns B's result after that one call, A has been recorded
\* exactly once with expiry = failure time + 60000, and B's entry is untouched.
C7_FallbackMarksOnce ==
    (/\ disp.pc # "idle"
     /\ Len(disp.availableModels) >= 2
     /\ Len(disp.tried) >= 1
     /\ AllRateLimited(disp.tried[1].script)) =>
        LET A == disp.availableModels[1]
            B == disp.availableModels[2]
        IN  /\ disp.tried[1].model = A
            /\ disp.tried[1].calls = ClassRetries(disp.cls)
            /\ Len(disp.tried) = 1 =>
                  disp.pc = "await" /\ disp.pos = 2 /\ disp.marked = <<A>>
            /\ (Len(disp.tried) >= 2 /\ disp.tried[2].script[1].kind = "ok") =>
                  /\ disp.pc = "returned"
                  /\ Len(disp.tried) = 2
                  /\ disp.tried[2].model = B
                  /\ disp.tried[2].calls = 1
                  /\ disp.result = disp.tried[2].script[1]
                  /\ disp.marked = <<A>>
                  /\ Blacklist(disp.cls)[A] = disp.tried[1].at + CooldownMs
                  /\ EntryUntouched(B)

\* an image dispatch: three rate-limited calls on the first model, then the
\* second model answers its first call
C7_Witness ==
    /\ disp.cls = "image"
    /\ disp.pc = "returned"
    /\ Len(disp.tried) = 2
    /\ AllRateLimited(disp.tried[1].script)
    /\ disp.tried[1].calls = DefaultRetries
    /\ disp.tried[1].at > disp.startedAt
    /\ disp.tried[2].script[1].kind = "ok"
    /\ disp.marked = <<disp.availableModels[1]>>

\* C9 as stated: when every model of the class is in cooldown in the stored
\* blacklist at the start of a dispatch, the dispatch throws the no-model
\* error, calls no backend and leaves the blacklist as it was.
C9_AsStated ==
    (/\ disp.pc # "idle"
     /\ \A m \in Range(ClassModels(disp.cls, model)) :
            ~NotInCooldown(disp.startBlacklist, m, disp.startedAt)) =>
        /\ disp.pc = "thrown"
        /\ disp.result = NoModelError(disp.cls)
        /\ disp.tried = <<>>
        /\ retry = RetryIdle
        /\ Blacklist(disp.cls) = disp.startBlacklist

\* the call settled by entry j of the dispatch succeeded
SucceededAt(j) ==
    LET e == disp.tried[j] IN e.calls >= 1 /\ e.script[e.calls].kind = "ok"

\* C10: once a call on a model has succeeded the dispatch has returned that
\* result: the model is the last one tried, and neither it nor any model
\* after it in the order has been written to the blacklist.
C10_ReturnsOnFirstSuccess ==
    \A j \in 1..Len(disp.tried) :
        SucceededAt(j) =>
            /\ disp.pc = "returned"
            /\ j = Len(disp.tried)
            /\ disp.tried[j].model = disp.availableModels[j]
            /\ disp.result = disp.tried[j].script[disp.tried[j].calls]
            /\ \A i \in j..Len(disp.availableModels) :
                  /\ disp.availableModels[i] \notin Range(disp.marked)
                  /\ EntryUntouched(disp.availableModels[i])

\* a success on the first model while later models were available
C10_Witness ==
    /\ disp.pc = "returned"
    /\ Len(disp.tried) = 1
    /\ SucceededAt(1)
    /\ Len(disp.availableModels) >= 2
    /\ disp.marked = <<>>

\* the last call of entry j of the dispatch ended the dispatcher's try block
\* with an error that is not a rate-limit error: a thrown one, or the one
\* the block throws on a response without payload
FatalAt(j) ==
    LET e == disp.tried[j]
        o == e.script[e.calls]
    IN  e.calls >= 1 /\ (o = Malformed \/ (IsError(o) /\ ~IsRateLimitError(o)))

\* the error the try block ended with at entry j
ErrorAt(j) ==
    LET e == disp.tried[j]
        o == e.script[e.calls]
    IN  IF o = Malformed THEN MalformedError(disp.cls) ELSE o

\* C11: once a call on a model has failed with a Fatal error the dispatch has
\* thrown that same error: the model is the last one tried, no later model is
\* invoked, and the failing model has not been written to the blacklist.
C11_FatalStopsDispatch ==
    \A j \in 1..Len(disp.tried) :
        FatalAt(j) =>
            /\ disp.pc = "thrown"
            /\ j = Len(disp.tried)
            /\ disp.result = ErrorAt(j)
            /\ retry = RetryIdle
            /\ disp.tried[j].model \notin Range(disp.marked)
            /\ EntryUntouched(disp.tried[j].model)

\* a Fatal error on the second model, after the first was rate limited, while
\* a third model was available
C11_Witness ==
    /\ disp.pc = "thrown"
    /\ Len(disp.tried) = 2
    /\ FatalAt(2)
    /\ disp.result = EFatal
    /\ Len(disp.availableModels) >= 3
    /\ disp.marked = <<disp.availableModels[1]>>

\* the last call of entry j failed with a rate-limit error
RateLimitedAt(j) ==
    LET e == disp.tried[j]
        o == e.script[e.calls]
    IN  e.calls >= 1 /\ IsError(o) /\ IsRateLimitError(o)

\* every model available to the dispatch has been tried and was rate limited
AllModelsRateLimited ==
    /\ disp.pc # "idle"
    /\ Len(disp.availableModels) >= 1
    /\ Len(disp.tried) = Len(disp.availableModels)
    /\ \A j \in 1..Len(disp.tried) : RateLimitedAt(j)

\* every available model was invoked, in order, and has its cooldown entry
AllInvokedAndMarked ==
    /\ disp.pc = "thrown"
    /\ disp.marked = disp.availableModels
    /\ \A j \in 1..Len(disp.tried) :
          /\ disp.tried[j].model = disp.availableModels[j]
          /\ disp.tried[j].calls = ClassRetries(disp.cls)
          /\ Has(Blacklist(disp.cls), disp.tried[j].model)
          /\ Blacklist(disp.cls)[disp.tried[j].model] = disp.tried[j].at + CooldownMs

\* C12 as stated: the all-models-exhausted error carries the error of the
\* last model tried.
C12_AsStated ==
    AllModelsRateLimited =>
        /\ AllInvokedAndMarked
        /\ disp.result.kind = "Error"
        /\ disp.result.text =
              <<"All available models failed. Last error: ">> \o
              ErrorAt(Len(disp.tried)).text

\* C12: when every available model of a dispatch fails with rate-limit errors
\* the dispatch throws the all-models-failed error, every available model has
\* been invoked and has a cooldown entry; the error carries the message of
\* the last model's error when that error is an Error object, and the text
\* "Unknown API error." when it is any other thrown value.
C12_AllModelsExhausted ==
    AllModelsRateLimited =>
        /\ AllInvokedAndMarked
        /\ disp.result.kind = "Error"
        /\ disp.result.text =
              <<"All available models failed. Last error: ">> \o
              (IF ErrorAt(Len(disp.tried)).kind = "Error"
               THEN ErrorAt(Len(disp.tried)).text
               ELSE <<"Unknown API error.">>)

\* all four image models exhausted, the last one with an Error object
C12_Witness ==
    /\ AllModelsRateLimited
    /\ disp.cls = "image"
    /\ Len(disp.tried) = Len(IMAGEN_MODELS)
    /\ ErrorAt(Len(disp.tried)) = E429
    /\ disp.pc = "thrown"

\* the backend calls made so far on each model of the dispatch number at most n
CallsPerModelAtMost(n) ==
    /\ \A j \in 1..Len(disp.tried) : disp.tried[j].calls <= n
    /\ disp.pc = "await" => retry.calls <= n

\* C13 as stated: in the text and in the image dispatcher a model's backend
\* call is invoked at most 2 times.
C13_AsStated == disp.pc # "idle" => CallsPerModelAtMost(2)

\* C13: each model tried by the text dispatcher has its backend call invoked
\* at most 2 times, each model tried by the image dispatcher at most 3 times,
\* before the dispatcher moves to the next model.
C13_CallsPerModel ==
    /\ disp.cls = "text" => CallsPerModelAtMost(2)
    /\ disp.cls = "image" => CallsPerModelAtMost(3)

\* an image model called three times and then left for the next model
C13_Witness ==
    /\ disp.cls = "image"
    /\ Len(disp.tried) >= 1
    /\ disp.tried[1].calls = 3
    /\ disp.pos = 2

\* the models tried so far are the first models of list, in its order
TriedPrefixOf(list) ==
    /\ Len(disp.tried) <= Len(list)
    /\ \A j \in 1..Len(disp.tried) : disp.tried[j].model = list[j]

\* the priority order of the dispatch: the selected model first for the image
\* class, then the declared models in declaration order
PriorityOrder == ClassModels(disp.cls, run.model)

\* C14 as stated: the models a dispatch tries are the models not in cooldown
\* in the stored blacklist at its start, in priority order, each at most once.
C14_AsStated ==
    (disp.pc # "idle" /\ envApiKey) =>
        LET eligible == AvailableModels(PriorityOrder, disp.startBlacklist, disp.startedAt)
        IN  /\ disp.availableModels = eligible
            /\ TriedPrefixOf(eligible)

\* The part of C14 that holds: the models tried are the first models of the
\* priority order filtered by the blacklist of the dispatcher's closure.
TriesClosureEligibleInOrder ==
    (disp.pc # "idle" /\ envApiKey) =>
        LET blacklist == IF disp.cls = "text" THEN run.textBlacklist
                         ELSE run.imageBlacklist
            eligible == AvailableModels(PriorityOrder, blacklist, disp.startedAt)
        IN  /\ disp.availableModels = eligible
            /\ TriedPrefixOf(eligible)
            /\ \A i, j \in 1..Len(eligible) : i # j => eligible[i] # eligible[j]

AllModels == Range(GEMINI_TEXT_MODELS) \cup Range(IMAGEN_MODELS)

\* the cooldown entry of model m, in the map of its class
EntryOf(m, textMap, imageMap) ==
    IF m \in Range(GEMINI_TEXT_MODELS) THEN textMap[m] ELSE imageMap[m]

HasEntry(m, textMap, imageMap) ==
    IF m \in Range(GEMINI_TEXT_MODELS) THEN Has(textMap, m) ELSE Has(imageMap, m)

\* C26: after any sequence of rate-limit failures each model has at most one
\* cooldown entry, in the map of its class, and the expiry it holds is the time
\* of the most recent failure of the model plus the cooldown duration; a
\* repeated failure overwrites the entry, and no step removes an entry or
\* moves its expiry earlier.
C26_EntryIsLastFailure ==
    /\ [](\A m \in AllModels :
            /\ HasEntry(m, modelBlacklist, imagenModelBlacklist) <=> Has(modelFailedAt, m)
            /\ Has(modelFailedAt, m) =>
                   EntryOf(m, modelBlacklist, imagenModelBlacklist)
                       = modelFailedAt[m] + CooldownMs
            /\ DOMAIN modelBlacklist \subseteq Range(GEMINI_TEXT_MODELS)
            /\ DOMAIN imagenModelBlacklist \subseteq Range(IMAGEN_MODELS))
    /\ [][\A m \in AllModels :
             HasEntry(m, modelBlacklist, imagenModelBlacklist) =>
                 /\ HasEntry(m, modelBlacklist', imagenModelBlacklist')
                 /\ EntryOf(m, modelBlacklist', imagenModelBlacklist')
                        >= EntryOf(m, modelBlacklist, imagenModelBlacklist)]_vars

\* a dispatch has marked a model that had an entry when the dispatch started:
\* the entry now holds the later expiry
C26_Witness ==
    /\ disp.pc # "idle"
    /\ \E j \in 1..Len(disp.marked) :
          LET m == disp.marked[j]
          IN  /\ Has(disp.startBlacklist, m)
              /\ Blacklist(disp.cls)[m] > disp.startBlacklist[m]
              /\ Blacklist(disp.cls)[m] = modelFailedAt[m] + CooldownMs

\* The same for the keys of the pool of App (checked under SpecPool).
KeyEntryIsLastFailure ==
    \A k \in Keys :
        /\ Has(keyCooldowns, k) <=> Has(keyFailedAt, k)
        /\ Has(keyFailedAt, k) => keyCooldowns[k] = keyFailedAt[k] + CooldownMs

\* the dispatch started strictly inside the cooldown of m that the stored
\* blacklist held at its start: after the failure at t, before t + 60000
StartedInCooldownOf(m) ==
    /\ Has(disp.startBlacklist, m)
    /\ disp.startBlacklist[m] - CooldownMs < disp.startedAt
    /\ disp.startedAt < disp.startBlacklist[m]

\* C29 as stated: a dispatch that starts inside the cooldown of a model does
\* not invoke that model.
C29_AsStated ==
    disp.pc # "idle" =>
        \A j \in 1..Len(disp.tried) : ~StartedInCooldownOf(disp.tried[j].model)

\* The part of C29 that holds: a dispatch of a handler started by a click made
\* inside the cooldown of a model, with no failure of that model since the
\* click, does not invoke it.
C29_FreshClosureSkipsCooledModel ==
    (disp.pc # "idle" /\ Blacklist(disp.cls) = disp.startBlacklist
       /\ disp.startBlacklist = (IF disp.cls = "text" THEN run.textBlacklist
                                 ELSE run.imageBlacklist)) =>
        \A j \in 1..Len(disp.tried) : ~StartedInCooldownOf(disp.tried[j].model)

\* the metadata call of the card in hand has thrown and the handler takes its
\* next step
MetadataFails == run.phase = "metadata" /\ disp.pc = "thrown" /\ run' # run

PartialMetadataWritten ==
    /\ run.name = "handleGenerate"
    /\ Len(run.outcomes) >= 1
    /\ run.outcomes[1].meta =
           <<[failed |-> FALSE,
              written |-> [AiMetadata EXCEPT !.title = FallbackMetadata.title]]>>

----------------------------------------------------------------------------
(* Claims about VideoCreator *)

\* C8: a handler of VideoCreator started on an empty key list ends at once,
\* at the time it started: every one of its jobs fails with the no-key
\* error, no backend call is made, nothing is polled and no video is recorded.
C8_EmptyPoolFailsAtOnce ==
    (video.name # "none" /\ video.keys = <<>>) =>
        /\ video.pc = "done"
        /\ Len(video.outcomes) = video.jobs
        /\ \A j \in 1..Len(video.outcomes) :
              /\ video.outcomes[j].result = NoKeyError
              /\ video.outcomes[j].calls = 0
              /\ video.outcomes[j].polls = 0
              /\ video.outcomes[j].at = video.startedAt
        /\ video.calls = 0
        /\ video.totalSuccessCount = 0
        /\ video.name = "handleGenerateVideo" => generatedVideos = 0

\* a batch of two prompts on an empty key list
C8_Witness ==
    /\ video.name = "handleGenerateVideo"
    /\ video.keys = <<>>
    /\ apiKeys = <<>>
    /\ video.jobs = 2
    /\ video.pc = "done"
    /\ Len(video.outcomes) = 2

VideoQueueRuns == video.name = "handleGenerateVideo"

\* the jobs whose outcome is recorded are 1, 2, ... in that order and in time order
OutcomesInOrder(outcomes) ==
    /\ \A j \in 1..Len(outcomes) : outcomes[j].job = j
    /\ \A j \in 1..(Len(outcomes) - 1) : outcomes[j].at <= outcomes[j + 1].at

\* C15: handleGenerateVideo processes its jobs strictly in input order, one at a
\* time: the job in progress is the one after the last recorded outcome, so job
\* k+1 starts only once the outcome of job k is recorded; and a failed job never
\* keeps the following jobs from being attempted: when the run has ended every
\* job has an outcome, and every job that got a key has called the backend.
C15_JobsInOrder ==
    VideoQueueRuns =>
        /\ OutcomesInOrder(video.outcomes)
        /\ IF video.pc = "done"
           THEN Len(video.outcomes) = video.jobs
           ELSE video.job = Len(video.outcomes) + 1 /\ video.job <= video.jobs
        /\ \A j \in 1..Len(video.outcomes) :
               video.outcomes[j].result # NoKeyError => video.outcomes[j].calls >= 1

\* a run has ended whose first job failed after a backend call and whose second
\* job called the backend as well
C15_Witness ==
    /\ VideoQueueRuns
    /\ video.pc = "done"
    /\ video.jobs = 2
    /\ IsError(video.outcomes[1].result)
    /\ video.outcomes[1].calls >= 1
    /\ video.outcomes[2].calls >= 1

\* The same for handleGenerate of ImageCreator (checked under SpecDispatch): the
\* prompt in progress is the one after the last recorded outcome while its images
\* are awaited and the recorded one while its metadata is awaited, and the
\* handler ends only from its last prompt.
ImageJobsInOrder ==
    run.name = "handleGenerate" =>
        /\ OutcomesInOrder(run.outcomes)
        /\ run.job <= run.jobs
        /\ Len(run.outcomes) = (IF run.phase = "image" THEN run.job - 1 ELSE run.job)

ImageQueueEndsAfterLastJob ==
    [][(run.name = "handleGenerate" /\ run'.name = "none") =>
           /\ run.job = run.jobs
           /\ Len(run.outcomes) \in {run.jobs - 1, run.jobs}
           /\ disp.pc \in {"returned", "thrown"}]_vars

\* a batch of two prompts whose first prompt failed is awaiting the second
ImageSecondJobAfterFailure ==
    /\ run.name = "handleGenerate"
    /\ run.job = 2
    /\ Len(run.outcomes) >= 1
    /\ ~run.outcomes[1].ok
    /\ disp.pc = "await"

RECURSIVE CountJobs(_, _)
CountJobs(outcomes, failed) ==
    IF outcomes = <<>> THEN 0
    ELSE (IF IsError(Head(outcomes).result) = failed THEN 1 ELSE 0)
         + CountJobs(Tail(outcomes), failed)

RECURSIVE CountVideos(_)
CountVideos(outcomes) ==
    IF outcomes = <<>> THEN 0
    ELSE Head(outcomes).videos + CountVideos(Tail(outcomes))

VideoQueueDone == VideoQueueRuns /\ video.pc = "done"

\* C16 as stated: the number the summary of an ended run reports is the number of
\* succeeded jobs, and with the number of failed jobs it sums to the jobs submitted.
C16_AsStated ==
    VideoQueueDone =>
        /\ SummaryCount(video) = CountJobs(video.outcomes, FALSE)
        /\ SummaryCount(video) + CountJobs(video.outcomes, TRUE) = video.jobs

\* C16: the summary of an ended run of handleGenerateVideo reports one number,
\* the videos created by the succeeded jobs, which is the number of videos in the
\* result list and at least the number of succeeded jobs; the jobs that
\* succeeded and the jobs that failed sum to the jobs submitted.
C16_SummaryCountsVideos ==
    VideoQueueDone =>
        /\ SummaryCount(video) = CountVideos(video.outcomes)
        /\ SummaryCount(video) = generatedVideos
        /\ SummaryCount(video) >= CountJobs(video.outcomes, FALSE)
        /\ CountJobs(video.outcomes, FALSE) + CountJobs(video.outcomes, TRUE) = video.jobs

\* a run of two jobs has ended, one failed and one having created two videos
C16_Witness ==
    /\ VideoQueueDone
    /\ video.jobs = 2
    /\ CountJobs(video.outcomes, TRUE) = 1
    /\ SummaryCount(video) = 2

\* C17: a run of handleGenerateVideo never raises an error to its caller: whatever
\* the jobs answer, the handler is at one of its awaits or has ended normally,
\* and it has ended only with an outcome recorded for every job.
C17_NeverRaises ==
    VideoQueueRuns =>
        /\ video.pc \in {"generateVideos", "wait", "getVideosOperation", "fetch", "done"}
        /\ video.pc = "done" => Len(video.outcomes) = video.jobs

\* a run has ended normally in which every job failed, by errors of two kinds
C17_Witness ==
    /\ VideoQueueDone
    /\ video.jobs = 2
    /\ video.outcomes[1].result = EFatal
    /\ video.outcomes[2].result = FetchError

\* The same for handleGenerate (checked under SpecDispatch): no error of a prompt's
\* image dispatch or metadata dispatch leaves the handler.
ImageQueueNeverRaises == run.phase # "raised"

VideoBusy == VideoIsGenerating \/ VideoIsEnhancing

Polling == video.pc \in {"wait", "getVideosOperation"}

\* C18 as stated: with every backend call eventually returning or raising, a busy
\* flag that was set true is eventually set false.
C18_AsStated == VideoBusy ~> ~VideoBusy

\* C18: with every backend call eventually returning or raising, a busy flag of
\* VideoCreator that was set true is eventually set false unless the polling
\* loop of a job runs for ever, its operation never reporting done.
C18_BusyEventuallyReset == ([]<>~Polling) => (VideoBusy ~> ~VideoBusy)

\* a run has ended, isGenerating false again, after a job that polled its operation
C18_Witness ==
    /\ VideoQueueDone
    /\ ~VideoBusy
    /\ video.outcomes[1].polls >= 1

\* the time the loop body of job j was entered
JobStart(j) == IF j = 1 THEN video.startedAt ELSE video.outcomes[j - 1].at

\* C19: the poller fetches no status when the initial handle is already done;
\* otherwise each status fetch comes after a wait of one interval, the handle a
\* fetch returns replaces the current one, and the loop goes on, round after
\* round, exactly while the current handle is not done and the fetches succeed.
C19_Poller ==
    VideoQueueRuns =>
        /\ video.pc \in {"wait", "getVideosOperation", "fetch"} =>
               /\ video.calls = video.polls + 1
               /\ video.initial.done => video.polls = 0
               /\ video.operation.done <=> video.pc = "fetch"
               /\ video.pc = "fetch" => video.uris = video.operation.uris
               /\ now >= JobStart(video.job) + PollIntervalMs *
                      (video.polls + (IF video.pc = "getVideosOperation" THEN 1 ELSE 0))
        /\ \A j \in 1..Len(video.outcomes) :
               LET o == video.outcomes[j]
               IN  /\ o.calls \in {0, o.polls + 1}
                   /\ o.initial.done => o.polls = 0
                   /\ o.at >= JobStart(j) + PollIntervalMs * o.polls
                   /\ ~IsError(o.result) => o.operation.done /\ o.videos = o.operation.uris
                   /\ ~o.operation.done => IsError(o.result)

\* a job whose initial handle was not done has ended after three status fetches,
\* with the two videos of the last handle fetched
C19_Witness ==
    /\ VideoQueueRuns
    /\ Len(video.outcomes) >= 1
    /\ ~video.outcomes[1].initial.done
    /\ video.outcomes[1].initial.kind = "operation"
    /\ video.outcomes[1].polls = 3
    /\ video.outcomes[1].videos = 2

\* a job whose initial handle was already done has ended without a status fetch
InitialDoneNoFetch ==
    /\ VideoQueueRuns
    /\ Len(video.outcomes) >= 1
    /\ video.outcomes[1].initial.done
    /\ video.outcomes[1].polls = 0
    /\ video.outcomes[1].videos >= 1

LastOutcome(v) == v.outcomes[Len(v.outcomes)]

\* a step in which a status fetch raises: the job ends from the fetch while its
\* last handle is still not done
StatusFetchRaises ==
    /\ VideoQueueRuns
    /\ video.pc = "getVideosOperation"
    /\ Len(video'.outcomes) > Len(video.outcomes)
    /\ ~video'.outcomes[Len(video.outcomes) + 1].operation.done

\* C20: when a status fetch raises, the wait of that job ends at once (no time
\* passes and no further fetch is made), the error raised is recorded as the
\* failure of that job and of no other, no video is recorded for it, and the
\* queue goes on with the next job, or ends if the job was the last.
C20_FetchFailureEndsJobOnly ==
    [][StatusFetchRaises =>
           /\ now' = now
           /\ video'.outcomes = Append(video.outcomes, LastOutcome(video'))
           /\ LastOutcome(video').job = video.job
           /\ LastOutcome(video').result \in {E429, EFatal}
           /\ LastOutcome(video').polls = video.polls + 1
           /\ LastOutcome(video').videos = 0
           /\ generatedVideos' = generatedVideos
           /\ video'.totalSuccessCount = video.totalSuccessCount
           /\ IF video.job < video.jobs
              THEN video'.pc = "generateVideos" /\ video'.job = video.job + 1
              ELSE video'.pc = "done"]_vars

\* the first job failed by a status fetch that raised, after one that succeeded,
\* and the second job went on to add a video
C20_Witness ==
    /\ VideoQueueDone
    /\ video.jobs = 2
    /\ video.outcomes[1].polls = 2
    /\ video.outcomes[1].result = EFatal
    /\ ~video.outcomes[1].operation.done
    /\ video.outcomes[1].videos = 0
    /\ video.outcomes[2].videos >= 1
    /\ generatedVideos = video.outcomes[2].videos

\* C24 as stated: the cursor of VideoCreator is a valid index of a non-empty
\* pool, and a handler started on a non-empty pool has no job that failed for
\* want of a key.
C24_AsStated ==
    /\ apiKeys # <<>> => apiKeyIndex \in 0..(Len(apiKeys) - 1)
    /\ video.keys # <<>> =>
           \A j \in 1..Len(video.outcomes) : video.outcomes[j].result # NoKeyError

\* What holds of the cursor of VideoCreator: a selection leaves it in the range
\* of the key list the handler holds.
CursorInRangeAfterSelection ==
    [][(video'.keys # <<>> /\ apiKeyIndex' # apiKeyIndex) =>
           apiKeyIndex' \in 0..(Len(video'.keys) - 1)]_vars

\* getApiKey of VideoCreator advances its cursor on every selection: two
\* consecutive jobs of a handler on a list of two keys or more that do get a
\* key get different keys.
VideoConsecutiveKeysDiffer ==
    (VideoQueueRuns /\ Len(video.keys) >= 2) =>
        /\ \A j \in 1..(Len(video.outcomes) - 1) :
               (video.outcomes[j].apiKey # NoKey /\ video.outcomes[j + 1].apiKey # NoKey)
                   => video.outcomes[j].apiKey # video.outcomes[j + 1].apiKey
        /\ (video.outcomes # <<>> /\ video.apiKey # NoKey
              /\ LastOutcome(video).apiKey # NoKey) =>
               video.apiKey # LastOutcome(video).apiKey

\* job j of VideoCreator ended by a rate-limit error of its first backend call
RateLimitedAtFirstCall(j) ==
    /\ video.outcomes[j].result = E429
    /\ video.outcomes[j].polls = 0

\* C30 as stated, for the requests of VideoCreator: a job whose first call
\* fails with a rate-limit error makes another call, on the next model, before
\* it is reported failed.
C30_AsStated ==
    \A j \in 1..Len(video.outcomes) :
        RateLimitedAtFirstCall(j) => video.outcomes[j].calls >= 2

\* C30, video part as it holds: a job of VideoCreator whose first call fails
\* with a rate-limit error is reported failed after that one call, on the one
\* model of the handler, with no video added; the text and image dispatchers of
\* ImageCreator are the ones that fall back.
C30_VideoJobFailsOnRateLimit ==
    \A j \in 1..Len(video.outcomes) :
        RateLimitedAtFirstCall(j) =>
            /\ video.outcomes[j].calls = 1
            /\ video.outcomes[j].videos = 0
            /\ video.outcomes[j].initial = NoOperation

\* the first job of a batch failed by a rate-limit error of generateVideos and
\* the second one added a video
C30_Witness ==
    /\ VideoQueueDone
    /\ video.jobs = 2
    /\ RateLimitedAtFirstCall(1)
    /\ video.outcomes[1].apiKey # NoKey
    /\ video.outcomes[2].videos >= 1

\* C31 as stated: no step removes a video from the result set.
C31_AsStated == [][generatedVideos' >= generatedVideos]_vars

\* C31: within a run of handleGenerateVideo the result set holds the videos of
\* every succeeded job of the run, whatever the later jobs do, and the only
\* step that removes videos is the start of a new run, which empties the set.
C31_KeptUntilNextRun ==
    /\ [](VideoQueueRuns => generatedVideos = CountVideos(video.outcomes))
    /\ [][generatedVideos' < generatedVideos =>
             /\ VideoFree
             /\ video'.name = "handleGenerateVideo"
             /\ video'.startedAt = now
             /\ generatedVideos' = 0]_vars

\* the first job of a batch added its videos, the second job failed, and the
\* videos of the first are still in the result set
C31_Witness ==
    /\ VideoQueueDone
    /\ video.jobs = 2
    /\ video.outcomes[1].videos = MaxVideos
    /\ IsError(video.outcomes[2].result)
    /\ generatedVideos = MaxVideos

----------------------------------------------------------------------------
(* Claims about the key manager *)

NoDuplicates(keys) == \A a, b \in DOMAIN keys : a # b => keys[a] # keys[b]

NoBlank(keys) == \A j \in DOMAIN keys : Trim(keys[j]) # ""

\* the texts of the key field whose trimmed value is in the list
PresentTexts(keys) == {newKey \in RawKeys : Trim(newKey) \in Range(keys)}

\* C28: the pool never holds a value twice nor an empty or whitespace-only
\* value, and adding a text whose trimmed value is in the pool leaves the pool
\* as it is (handleAddClick and handleAddKey of App.tsx).
C28_NoDuplicateNoBlank ==
    /\ NoDuplicates(apiKeys)
    /\ NoBlank(apiKeys)
    /\ \A newKey \in PresentTexts(apiKeys) : AddKey(apiKeys, Trim(newKey)) = apiKeys
    /\ \A newKey \in RawKeys : Trim(newKey) = "" => AddKey(apiKeys, newKey) = apiKeys

\* a handler that started on the pool k1, k2 sees the pool k2, k1: k1 was
\* deleted and added again while it ran, and a text typed with spaces around it
\* that names k1 leaves the pool as it is
C28_Witness ==
    /\ video.pc \notin {"idle", "done"}
    /\ video.keys = <<"k1", "k2">>
    /\ apiKeys = <<"k2", "k1">>
    /\ " k1 " \in PresentTexts(apiKeys)
    /\ AddKey(apiKeys, Trim(" k1 ")) = apiKeys
    /\ storage = Stringify(apiKeys)

\* The same of the key manager of Navbar.tsx, whose edits reach the pool on Save.
ManagerNoDuplicateNoBlank ==
    /\ NoDuplicates(apiKeys)
    /\ NoBlank(apiKeys)
    /\ \A newKey \in PresentTexts(apiKeys) : ManagerAddKey(apiKeys, newKey) = apiKeys
    /\ \A localKeys \in Edited(apiKeys, MaxEdits) :
          NoDuplicates(localKeys) /\ NoBlank(localKeys)

----------------------------------------------------------------------------
(* Claims about App of App.tsx *)

\* C32 as stated: in a build with process.env.API_KEY no step writes the stored
\* item.
C32_AsStated == [][envApiKey => storage' = storage]_vars

\* What holds in AI Studio mode: once isAiStudio is set the item is not
\* written again in that session, and the key list is the one key of the build.
AiStudioWritesOnlyAtMount ==
    /\ [][(envApiKey /\ app.pc # "start") => storage' = storage]_vars
    /\ []((envApiKey /\ app.pc # "start") =>
            /\ app.isAiStudio
            /\ apiKeys = <<EnvKey>>
            /\ storage = Stringify(<<>>))

\* Without process.env.API_KEY the session settles on the stored list: once the
\* mount is over the item is the list of the session.
SettledItemIsKeyList ==
    (~envApiKey /\ app.pc = "ready") => storage = Stringify(apiKeys)

----------------------------------------------------------------------------
(* Claims about fetchWithRetry *)

\* the wait recorded at position k was followed by a retry, or will be
RetryFollows(k) == fetcher.waits[k].i + 1 < fetcher.retries

\* C33 as stated: of two waits that follow the 429 responses of two successive
\* attempts and that each precede a retry, the second is twice the first.
C33_AsStated ==
    \A k \in 1..(Len(fetcher.waits) - 1) :
        (fetcher.waits[k + 1].i = fetcher.waits[k].i + 1 /\ RetryFollows(k + 1)) =>
            fetcher.waits[k + 1].wait = 2 * fetcher.waits[k].wait

\* C33: the wait that follows a 429 response grows linearly: after the 429 of
\* attempt n it is n times the delay, whether or not a retry follows, so the
\* waits of successive 429 responses differ by the delay.
C33_LinearBackoff ==
    /\ \A k \in 1..Len(fetcher.waits) :
          fetcher.waits[k].wait = fetcher.delay * (fetcher.waits[k].i + 1)
    /\ \A k \in 1..(Len(fetcher.waits) - 1) :
          fetcher.waits[k + 1].i = fetcher.waits[k].i + 1 =>
              fetcher.waits[k + 1].wait = fetcher.waits[k].wait + fetcher.delay

\* the call of upscaleImage, three attempts with delay 2000, answered 429 three
\* times: it has waited 2000, 4000 and 6000 ms and raised
C33_Witness ==
    /\ fetcher.pc = "thrown"
    /\ fetcher.retries = 3
    /\ fetcher.delay = UpscaleFetchDelay
    /\ fetcher.responses = <<"429", "429", "429">>
    /\ fetcher.waits = <<[i |-> 0, wait |-> 2000], [i |-> 1, wait |-> 4000],
                         [i |-> 2, wait |-> 6000]>>
    /\ now = 12000

\* the call has ended by raising an error
FetchRaised == fetcher.pc = "thrown"

\* C34 as stated: at most `retries` fetch calls, and a response that is not ok
\* and not 429 is raised at once, with no fetch after it.
C34_AsStated ==
    /\ Len(fetcher.responses) <= fetcher.retries
    /\ \A k \in 1..Len(fetcher.responses) :
          fetcher.responses[k] = "not-ok" =>
              FetchRaised /\ k = Len(fetcher.responses)

\* C34: fetchWithRetry makes at most `retries` fetch calls and every failed
\* attempt consumes one of them. A response that is not ok and not 429, or a
\* rejected fetch, is raised only when it is the last attempt; before that the
\* next fetch is made at once, without a wait. The call raises only after
\* `retries` fetches, and returns only the ok response of its last fetch.
C34_EveryFailureConsumesAnAttempt ==
    LET n == Len(fetcher.responses) IN
    /\ n <= fetcher.retries
    /\ fetcher.pc \in {"fetch", "wait"} => fetcher.i = IF fetcher.pc = "fetch" THEN n ELSE n - 1
    /\ FetchRaised =>
          /\ n = fetcher.retries
          /\ fetcher.result = CASE fetcher.responses[n] = "429" -> "All retries failed."
                                 [] fetcher.responses[n] = "not-ok" -> "HTTP error"
                                 [] OTHER -> "rejected"
    /\ fetcher.pc = "returned" => fetcher.responses[n] = "ok"
    /\ \A k \in 1..(n - 1) :
          /\ fetcher.responses[k] # "ok"
          /\ fetcher.responses[k] \in {"not-ok", "rejected"} =>
                 fetcher.calledAt[k + 1] = fetcher.calledAt[k]
          /\ fetcher.responses[k] = "429" =>
                 fetcher.calledAt[k + 1] = fetcher.calledAt[k] + fetcher.delay * k

\* three attempts: a response that is not ok, then a 429, then the ok response
\* that is returned; the second fetch was made at once, the third after the wait
C34_Witness ==
    /\ fetcher.pc = "returned"
    /\ fetcher.retries = 3
    /\ fetcher.responses = <<"not-ok", "429", "ok">>
    /\ fetcher.calledAt = <<0, 0, 2 * fetcher.delay>>

----------------------------------------------------------------------------
(* Claims about the upscaler *)

\* the invocation u is in flight and the step ends it
EndsIn(u) ==
    /\ u \in upscales
    /\ \A v \in upscales' : ~(v.card = u.card /\ v.origin = u.origin)

\* C35: an invocation of handleUpscale calls upscaleImage at most 3 times. The
\* step that ends it leaves the isUpscaling entry of its card false; it ends
\* fulfilled, with the card upscaled and its image replaced, or rejected after
\* the third failed attempt, with the cards as they were. A card changes only
\* in a step in which an invocation for it ends fulfilled.
C35_ThreeAttemptsThenSettled ==
    /\ [](\A u \in upscales : u.attempt \in 1..UpscaleAttempts)
    /\ [][\A u \in upscales : EndsIn(u) =>
             /\ isUpscaling'[u.card] = NotUpscaling
             /\ upscaleEnded'.card = u.card
             /\ upscaleEnded'.attempts = u.attempt
             /\ \/ /\ upscaleEnded'.result = "fulfilled"
                   /\ cards'[u.card] = UpscaledCard
                \/ /\ upscaleEnded'.result = "rejected"
                   /\ u.attempt = UpscaleAttempts
                   /\ cards' = cards]_vars
    /\ [][\A id \in DOMAIN cards : cards'[id] # cards[id] =>
             /\ cards'[id] = UpscaledCard
             /\ upscaleEnded'.result = "fulfilled"
             /\ \E u \in upscales : u.card = id /\ EndsIn(u)]_vars

\* the button of card c1 was used, the three attempts failed: the invocation
\* ended rejected, the entry of the card is false and the card is as created
C35_Witness ==
    /\ upscaleEnded = [card |-> "c1", origin |-> "single", attempts |-> 3,
                       result |-> "rejected", wasUpscaled |-> FALSE]
    /\ upscales = {}
    /\ isUpscaling["c1"] = NotUpscaling
    /\ cards["c1"] = NewCard

\* the third attempt of an invocation succeeded
UpscaledAtThirdAttempt ==
    /\ upscaleEnded.attempts = 3
    /\ upscaleEnded.result = "fulfilled"
    /\ cards[upscaleEnded.card] = UpscaledCard

\* C36 as stated: no two invocations for one card are in flight, and no call of
\* upscaleImage is made for a card that is upscaled.
C36_AsStated ==
    /\ \A u, v \in upscales : u.card = v.card => u = v
    /\ \A u \in upscales : ~u.sentUpscaled

\* the auto-upscale of a run sends a card that was upscaled during the run
AutoUpscaleResends ==
    \E u \in upscales :
        u.origin = "auto" /\ u.attempt = 1 /\ u.sentUpscaled /\ cards[u.card] = UpscaledCard

\* the button and the batch button have each an invocation in flight for c1
TwoInFlight ==
    \E u, v \in upscales :
        u.card = "c1" /\ v.card = "c1" /\ u.origin = "single" /\ v.origin = "batch"

\* What the guards do ensure: the button of a card starts an invocation only
\* for a card that is not upscaled and whose entry does not show an attempt,
\* and the batch button does not start a second batch while one runs.
GuardedStarts ==
    /\ [][\A u \in upscales' \ upscales :
             (u.attempt = 1 /\ u.origin = "single") =>
                 ~cards[u.card].isUpscaled /\ ~IsCurrentlyUpscaling(u.card)]_vars
    /\ [][\A u \in upscales' \ upscales :
             (u.attempt = 1 /\ u.origin = "batch") =>
                 ~cards[u.card].isUpscaled /\ ~batchUpscale.isBatchUpscaling]_vars

----------------------------------------------------------------------------
(* Claims about the batch tab of VideoCreator *)

\* the numbers of the lines of the batch input that hold a prompt, in order
PromptLines(batchInput) ==
    LET lines == Split(batchInput)
    IN  SelectSeq([n \in 1..Len(lines) |-> n], LAMBDA n : TrimText(lines[n]) # <<>>)

\* image n of the list, when it exists
ImageNumber(images, n) == IF n <= Len(images) THEN images[n] ELSE NoImage

\* C39: in the batch tab the request built from line n of the batch input
\* carries image n of the uploaded images when there is one, and no image
\* otherwise, whether or not the input has blank lines.
C39_AsStated ==
    pairing.built =>
        LET promptLines == PromptLines(pairing.batchInput)
        IN  \A k \in 1..Len(pairing.params) :
                pairing.params[k].image =
                    ImageNumber(pairing.closureImages, promptLines[k])

\* what the handler does: the k-th prompt of the input, counting only the
\* lines that hold one, carries image k
PairedByRank ==
    pairing.built =>
        LET promptLines == PromptLines(pairing.batchInput)
            lines == Split(pairing.batchInput)
        IN  /\ Len(pairing.params) = Len(promptLines)
            /\ \A k \in 1..Len(pairing.params) :
                  /\ pairing.params[k].prompt = TrimText(lines[promptLines[k]])
                  /\ pairing.params[k].image = ImageNumber(pairing.closureImages, k)

\* a prompt below a blank line was sent with the image of an earlier line
\* number although an image of its own line number was uploaded
BlankLineShiftsImages ==
    /\ pairing.built
    /\ \E k \in 1..Len(pairing.params) :
          LET n == PromptLines(pairing.batchInput)[k]
          IN  /\ n > k
              /\ n <= Len(pairing.closureImages)
              /\ pairing.params[k].image = pairing.closureImages[k]
              /\ pairing.params[k].image # pairing.closureImages[n]

----------------------------------------------------------------------------
(* Claims about handlers of ImageCreator in progress at once *)

BothEnded == \A s \in Slots : overlap[s].pc = "ended"

\* C38: when the dispatches of two handlers overlap and each records
\* rate-limit failures, of the same model or of different models, no cooldown
\* update is lost: at every moment, and so after both have completed, every
\* model that either of them saw fail has its entry in the map of its class,
\* the entry is the one of the model's latest failure, and the maps hold
\* nothing but the models of their class, one entry each.
C38_NoCooldownUpdateLost ==
    /\ \A s \in Slots : \A j \in 1..Len(overlap[s].failed) :
          LET f == overlap[s].failed[j]
          IN  /\ HasEntry(f.model, modelBlacklist, imagenModelBlacklist)
              /\ EntryOf(f.model, modelBlacklist, imagenModelBlacklist)
                     >= f.at + CooldownMs
              /\ EntryOf(f.model, modelBlacklist, imagenModelBlacklist)
                     = modelFailedAt[f.model] + CooldownMs
    /\ DOMAIN modelBlacklist \subseteq Range(GEMINI_TEXT_MODELS)
    /\ DOMAIN imagenModelBlacklist \subseteq Range(IMAGEN_MODELS)
    /\ DOMAIN modelBlacklist \cup DOMAIN imagenModelBlacklist = DOMAIN modelFailedAt

\* both handlers have ended, each recorded a failure of the same model while
\* the dispatch of the other was awaited, and the handlers started with
\* closures that hold no entry for it
C38_Witness ==
    /\ BothEnded
    /\ \E i \in 1..Len(overlap["enhance"].failed),
          j \in 1..Len(overlap["generate"].failed) :
          LET f == overlap["enhance"].failed[i]
              g == overlap["generate"].failed[j]
          IN  /\ f.model = g.model
              /\ f.beside /\ g.beside
              /\ ~Has(overlap["enhance"].textBlacklist, f.model)
              /\ ~Has(overlap["generate"].textBlacklist, f.model)

\* both handlers have ended, and each recorded, while the dispatch of the
\* other was awaited, the failure of a model the other did not see fail
DifferentModelsBeside ==
    /\ BothEnded
    /\ \E i \in 1..Len(overlap["enhance"].failed),
          j \in 1..Len(overlap["generate"].failed) :
          LET f == overlap["enhance"].failed[i]
              g == overlap["generate"].failed[j]
          IN  /\ f.beside /\ g.beside
              /\ \A k \in 1..Len(overlap["generate"].failed) :
                    overlap["generate"].failed[k].model # f.model
              /\ \A k \in 1..Len(overlap["enhance"].failed) :
                    overlap["enhance"].failed[k].model # g.model

\* the accepted race: a dispatch started with a model that was eligible for
\* its closure although the other handler had put it on cooldown
StartsOnCooledModel ==
    \E s \in Slots :
        /\ overlap[s].pc = "await"
        /\ \E k \in 1..Len(overlap[s].availableModels) :
              LET m == overlap[s].availableModels[k]
              IN  /\ HasEntry(m, modelBlacklist, imagenModelBlacklist)
                  /\ EntryOf(m, modelBlacklist, imagenModelBlacklist) > now
                  /\ overlap[s].failed = <<>>

====
